---- MODULE Spec2Model ----
(***************************************************************************)
(* Model of the Ontology Interchange Engine of ProtegeDesk                 *)
(* (src/lib/ontology/serializers.tsx): the IRI resolver, the JSON-LD,      *)
(* Turtle and RDF/XML codecs and the structural validator.                 *)
(*                                                                         *)
(* Strings are TLA+ strings; TLC evaluates Len, SubSeq and \o on them, so  *)
(* startsWith / endsWith / includes / split are computed character by      *)
(* character as the JavaScript methods compute them.                       *)
(***************************************************************************)
EXTENDS Integers, Sequences, FiniteSets, TLC

VARIABLES
    pc,             \* position of the running call
    call,           \* the arguments of the call in flight
    result,         \* the value the call returned (NoResult before it returns)
    content,        \* the serialized document handed from a serializer to a parser
    classes,        \* Map<string, OntologyClass> a parser is filling
    properties,     \* Map<string, OntologyProperty> a parser is filling
    individuals,    \* Map<string, Individual> a parser is filling
    cursor,         \* index of the next line / node a parser's forEach visits
    currentSubject, \* parseTurtle: let currentSubject
    currentType     \* parseTurtle: let currentType

vars == <<pc, call, result, content, classes, properties, individuals, cursor,
          currentSubject, currentType>>

NoResult == [kind |-> "none"]

(***************************************************************************)
(* JavaScript string methods.                                              *)
(***************************************************************************)
\* String.prototype.startsWith
StartsWith(s, p) == Len(s) >= Len(p) /\ SubSeq(s, 1, Len(p)) = p

\* String.prototype.endsWith
EndsWith(s, p) == Len(s) >= Len(p) /\ SubSeq(s, Len(s) - Len(p) + 1, Len(s)) = p

\* String.prototype.includes
Includes(s, p) == \E i \in 1..(Len(s) - Len(p) + 1) : SubSeq(s, i, i + Len(p) - 1) = p

\* String.prototype.lastIndexOf for a one-character c, 1-based, 0 when absent
LastIndexOf(s, c) ==
    LET hits == {i \in 1..Len(s) : SubSeq(s, i, i) = c}
    IN  IF hits = {} THEN 0 ELSE CHOOSE i \in hits : \A j \in hits : j <= i

\* s.split(c).pop() for a one-character separator c: the text after the last c,
\* the whole of s when c does not occur, "" when s ends with c
SplitPop(s, c) == SubSeq(s, LastIndexOf(s, c) + 1, Len(s))

(***************************************************************************)
(* An optional string (string | undefined) is <<>> or <<s>>.               *)
(***************************************************************************)
Undefined == <<>>
Some(s) == <<s>>
IsDefined(o) == Len(o) = 1

\* an insertion-ordered Map with unique keys is a sequence of entries
\* [key, value]
MapEntry(k, v) == [key |-> k, value |-> v]

\* Map.prototype.has
MapHas(m, k) == \E i \in 1..Len(m) : m[i].key = k

\* Map.prototype.get
MapGet(m, k) == m[CHOOSE i \in 1..Len(m) : m[i].key = k].value

\* Map.prototype.set: an existing key keeps its position, a new key is appended
MapSet(m, k, v) ==
    IF MapHas(m, k)
    THEN [i \in 1..Len(m) |-> IF m[i].key = k THEN MapEntry(k, v) ELSE m[i]]
    ELSE Append(m, MapEntry(k, v))

\* Array.from(m.values())
MapValues(m) == [i \in 1..Len(m) |-> m[i].value]

(***************************************************************************)
(* 4.1 IRI resolver                                                        *)
(***************************************************************************)
\* a resolver that forgets to strip the base's trailing '#'
resolveIRI_NoStrip(iri, xmlBase) ==
    IF iri = "" THEN iri
    ELSE IF StartsWith(iri, "http://") \/ StartsWith(iri, "https://") THEN iri
    ELSE xmlBase \o iri

resolveIRI(iri, xmlBase) ==
    IF iri = "" THEN iri
    ELSE IF StartsWith(iri, "http://") \/ StartsWith(iri, "https://") THEN iri
    ELSE IF StartsWith(iri, "#")
         THEN (IF EndsWith(xmlBase, "#")
               THEN SubSeq(xmlBase, 1, Len(xmlBase) - 1)
               ELSE xmlBase) \o iri
         ELSE xmlBase \o iri

IriSamples ==
    {"", "#", "#Person", "##x", "http://ex.org/X", "https://ex.org/X",
     "http:/x", "httpx", "Person", "ftp://ex.org/X", "/rel", "a#b"}

BaseSamples ==
    {"", "#", "http://ex.org/onto#", "http://ex.org/onto",
     "http://ex.org/onto##", "http://ex.org/", "base#"}

ParserIdle ==
    /\ content = NoResult
    /\ classes = <<>>
    /\ properties = <<>>
    /\ individuals = <<>>
    /\ cursor = 0
    /\ currentSubject = Undefined
    /\ currentType = Undefined

ParserUnchanged ==
    UNCHANGED <<content, classes, properties, individuals, cursor, currentSubject,
                currentType>>

InitResolve ==
    /\ pc = "call"
    /\ \E iri \in IriSamples, base \in BaseSamples :
           call = [op |-> "resolveIRI", iri |-> iri, xmlBase |-> base]
    /\ result = NoResult
    /\ ParserIdle

ResolveStep ==
    /\ pc = "call"
    /\ call.op = "resolveIRI"
    /\ result' = [kind |-> "string", value |-> resolveIRI(call.iri, call.xmlBase)]
    /\ pc' = "done"
    /\ UNCHANGED call
    /\ ParserUnchanged

NextResolve == ResolveStep

SpecResolve == InitResolve /\ [][NextResolve]_vars

\* C2: resolveIRI is total and follows the three rules: iri is returned unchanged
\* when it is empty or starts with http:// or https://; an iri starting with '#'
\* gives the base without one trailing '#' followed by iri; any other iri gives
\* base followed by iri.
ResolveFollowsRules ==
    (pc = "done" /\ call.op = "resolveIRI") =>
        LET iri == call.iri
            base == call.xmlBase
            n == Len(base)
            absolute == \/ (Len(iri) >= 7 /\ SubSeq(iri, 1, 7) = "http://")
                        \/ (Len(iri) >= 8 /\ SubSeq(iri, 1, 8) = "https://")
            fragment == Len(iri) >= 1 /\ SubSeq(iri, 1, 1) = "#"
        IN  /\ result.kind = "string"
            /\ (iri = "" \/ absolute) => result.value = iri
            /\ (iri # "" /\ ~absolute /\ fragment) =>
                   /\ (n >= 1 /\ SubSeq(base, n, n) = "#") =>
                          result.value = SubSeq(base, 1, n - 1) \o iri
                   /\ ~(n >= 1 /\ SubSeq(base, n, n) = "#") =>
                          result.value = base \o iri
            /\ (iri # "" /\ ~absolute /\ ~fragment) => result.value = base \o iri

\* the spec's example: "http://ex.org/onto#" + "#Person" resolved to one separator
ResolveWitness ==
    /\ pc = "done"
    /\ call.op = "resolveIRI"
    /\ call.iri = "#Person"
    /\ call.xmlBase = "http://ex.org/onto#"
    /\ result.value = "http://ex.org/onto#Person"

(***************************************************************************)
(* 3. Data model.  An Ontology is                                          *)
(*   [id, name, version, imports, classes, properties, individuals]        *)
(* with the three Maps as insertion-ordered entry sequences; the fields    *)
(* the engine never reads (annotations, characteristics, lastModified ...) *)
(* are left out.                                                           *)
(***************************************************************************)
OntologyClass(id, name, label, description, superClasses, disjointWith, equivalentTo) ==
    [id |-> id, name |-> name, label |-> label, description |-> description,
     superClasses |-> superClasses, disjointWith |-> disjointWith,
     equivalentTo |-> equivalentTo]

OntologyProperty(id, name, label, description, type, domain, range, superProperties) ==
    [id |-> id, name |-> name, label |-> label, description |-> description,
     type |-> type, domain |-> domain, range |-> range,
     superProperties |-> superProperties]

Individual(id, name, label, types, sameAs, differentFrom) ==
    [id |-> id, name |-> name, label |-> label, types |-> types,
     sameAs |-> sameAs, differentFrom |-> differentFrom]

Ontology(id, name, version, imports, cls, props, inds) ==
    [id |-> id, name |-> name, version |-> version, imports |-> imports,
     classes |-> cls, properties |-> props, individuals |-> inds]

\* the Maps of at most n entities of S, each stored under its id
EntitySeqs(S, n) ==
    UNION {{[i \in 1..k |-> MapEntry(s[i].id, s[i])] :
               s \in {t \in [1..k -> S] : \A i, j \in 1..k : i # j => t[i].id # t[j].id}}
           : k \in 0..n}

MaxEntities == 1

OntologyIdSamples == {"http://ex.org/onto", "", "urn:onto"}

ClassSamples ==
    {OntologyClass("http://ex.org#A", "A", Undefined, Undefined,
                   <<"owl:Thing">>, <<>>, <<>>),
     OntologyClass("http://ex.org#B", "B", Some("B"), Some("a bee"),
                   <<"http://ex.org#A", "rdfs:Resource">>, <<>>, <<>>),
     OntologyClass("http://ex.org#D", "Dee", Some("D"), Undefined,
                   <<"xsd:string">>, <<"http://ex.org#A">>, <<"http://ex.org#E">>),
     OntologyClass("C", "Cee", Some("Cee"), Undefined,
                   <<"Missing", "Missing">>, <<>>, <<>>)}

PropertySamples ==
    {OntologyProperty("http://ex.org#p", "p", Some("p"), Undefined, "ObjectProperty",
                      <<"http://ex.org#A">>, <<"xsd:string">>, <<>>),
     OntologyProperty("http://ex.org#r", "r", Some("r"), Some("note"), "AnnotationProperty",
                      <<"owl:Thing", "rdfs:Literal">>, <<>>, <<"http://ex.org#p">>),
     OntologyProperty("q", "q", Undefined, Undefined, "DataProperty",
                      <<"A">>, <<"string", "owl:Thing", "int">>, <<>>)}

IndividualSamples ==
    {Individual("http://ex.org#i", "i", Some("i"), <<"http://ex.org#A">>, <<>>, <<>>),
     Individual("http://ex.org#j", "j", Undefined, <<"xsd:int">>, <<>>, <<>>),
     Individual("k", "k", Undefined, <<"T", "owl:Thing", "T">>, <<>>, <<>>)}

ImportSamples ==
    {<<>>, <<"http://ex.org/other">>, <<"other.owl">>, <<"x", "http://ex.org/y", "x">>}

OntologySamples ==
    {Ontology(id, "Onto", Some("1.0"), imp, cls, props, inds) :
        id \in OntologyIdSamples, imp \in ImportSamples,
        cls \in EntitySeqs(ClassSamples, MaxEntities),
        props \in EntitySeqs(PropertySamples, MaxEntities),
        inds \in EntitySeqs(IndividualSamples, MaxEntities)}

(***************************************************************************)
(* 4.5 Structural validator                                                *)
(***************************************************************************)
\* what the visits of a forEach / map pushed, visit after visit: the
\* concatenation, in order, of the lists each visit produced
Flatten(pushed) ==
    LET acc[i \in 0..Len(pushed)] ==
            IF i = 0 THEN <<>> ELSE acc[i - 1] \o pushed[i]
    IN  acc[Len(pushed)]

\* a validator that only rejects a missing ontology id
OntologyIdErrors_EmptyOnly(ontology) ==
    IF ontology.id = ""
    THEN <<"Ontology IRI must be a valid HTTP(S) URI">>
    ELSE <<>>

OntologyIdErrors(ontology) ==
    IF ontology.id = "" \/ ~StartsWith(ontology.id, "http")
    THEN <<"Ontology IRI must be a valid HTTP(S) URI">>
    ELSE <<>>

SuperClassErrors(cls) ==
    LET Err(sc) ==
            IF ~StartsWith(sc, "http") /\ ~StartsWith(sc, "owl:") /\ ~StartsWith(sc, "rdfs:")
            THEN <<"Class " \o cls.name \o " references invalid superclass: " \o sc>>
            ELSE <<>>
    IN  Flatten([i \in 1..Len(cls.superClasses) |-> Err(cls.superClasses[i])])

\* classes.forEach((cls, id) => ...): id is the key the class is stored under
ClassErrors(cls, id) ==
    (IF ~StartsWith(id, "http")
     THEN <<"Class " \o cls.name \o " has invalid IRI: " \o id>>
     ELSE <<>>)
    \o SuperClassErrors(cls)

\* a domain / range check that stops at the first bad entry
DomainRangeErrors_FirstOnly(prop, what, targets) ==
    LET bad == {i \in 1..Len(targets) :
                    ~StartsWith(targets[i], "http") /\ ~StartsWith(targets[i], "owl:")
                    /\ ~StartsWith(targets[i], "rdfs:") /\ ~StartsWith(targets[i], "xsd:")}
    IN  IF bad = {} THEN <<>>
        ELSE <<"Property " \o prop.name \o " has invalid " \o what \o ": "
               \o targets[CHOOSE i \in bad : \A j \in bad : i <= j]>>

\* a domain / range check that forgets the xsd: shorthand
DomainRangeErrors_NoXsd(prop, what, targets) ==
    LET Err(d) ==
            IF ~StartsWith(d, "http") /\ ~StartsWith(d, "owl:") /\ ~StartsWith(d, "rdfs:")
            THEN <<"Property " \o prop.name \o " has invalid " \o what \o ": " \o d>>
            ELSE <<>>
    IN  Flatten([i \in 1..Len(targets) |-> Err(targets[i])])

DomainRangeErrors(prop, what, targets) ==
    LET Err(d) ==
            IF ~StartsWith(d, "http") /\ ~StartsWith(d, "owl:")
               /\ ~StartsWith(d, "rdfs:") /\ ~StartsWith(d, "xsd:")
            THEN <<"Property " \o prop.name \o " has invalid " \o what \o ": " \o d>>
            ELSE <<>>
    IN  Flatten([i \in 1..Len(targets) |-> Err(targets[i])])

PropertyErrors(prop, id) ==
    (IF ~StartsWith(id, "http")
     THEN <<"Property " \o prop.name \o " has invalid IRI: " \o id>>
     ELSE <<>>)
    \o DomainRangeErrors(prop, "domain", prop.domain)
    \o DomainRangeErrors(prop, "range", prop.range)

IndividualErrors(ind, id) ==
    LET Err(t) ==
            IF ~StartsWith(t, "http") /\ ~StartsWith(t, "owl:") /\ ~StartsWith(t, "rdfs:")
            THEN <<"Individual " \o ind.name \o " references invalid type: " \o t>>
            ELSE <<>>
    IN  (IF ~StartsWith(id, "http")
         THEN <<"Individual " \o ind.name \o " has invalid IRI: " \o id>>
         ELSE <<>>)
        \o Flatten([i \in 1..Len(ind.types) |-> Err(ind.types[i])])

ImportErrors(ontology) ==
    LET Err(imp) ==
            IF ~StartsWith(imp, "http") THEN <<"Invalid import IRI: " \o imp>> ELSE <<>>
    IN  Flatten([i \in 1..Len(ontology.imports) |-> Err(ontology.imports[i])])

validateOntology(ontology) ==
    OntologyIdErrors(ontology)
    \o Flatten([i \in 1..Len(ontology.classes) |->
                    ClassErrors(ontology.classes[i].value, ontology.classes[i].key)])
    \o Flatten([i \in 1..Len(ontology.properties) |->
                    PropertyErrors(ontology.properties[i].value,
                                   ontology.properties[i].key)])
    \o Flatten([i \in 1..Len(ontology.individuals) |->
                    IndividualErrors(ontology.individuals[i].value,
                                     ontology.individuals[i].key)])
    \o ImportErrors(ontology)

InitValidate ==
    /\ pc = "call"
    /\ \E o \in OntologySamples : call = [op |-> "validateOntology", ontology |-> o]
    /\ result = NoResult
    /\ ParserIdle

ValidateStep ==
    /\ pc = "call"
    /\ call.op = "validateOntology"
    /\ result' = [kind |-> "errors", value |-> validateOntology(call.ontology)]
    /\ pc' = "done"
    /\ UNCHANGED call
    /\ ParserUnchanged

NextValidate == ValidateStep

SpecValidate == InitValidate /\ [][NextValidate]_vars

Validated == pc = "done" /\ call.op = "validateOntology"

\* the prefixes a relationship target may carry
HasPrefix(s, prefixes) == \E p \in prefixes : Len(s) >= Len(p) /\ SubSeq(s, 1, Len(p)) = p

AllHavePrefix(targets, prefixes) ==
    \A i \in 1..Len(targets) : HasPrefix(targets[i], prefixes)

\* how many entries of targets carry none of the prefixes
BadCount(targets, prefixes) ==
    Cardinality({i \in 1..Len(targets) : ~HasPrefix(targets[i], prefixes)})

SumSeq(ns) ==
    LET acc[i \in 0..Len(ns)] == IF i = 0 THEN 0 ELSE acc[i - 1] + ns[i]
    IN  acc[Len(ns)]

EntityIdsWellFormed(o) ==
    /\ HasPrefix(o.id, {"http"})
    /\ \A i \in 1..Len(o.classes) : HasPrefix(o.classes[i].value.id, {"http"})
    /\ \A i \in 1..Len(o.properties) : HasPrefix(o.properties[i].value.id, {"http"})
    /\ \A i \in 1..Len(o.individuals) : HasPrefix(o.individuals[i].value.id, {"http"})
    /\ AllHavePrefix(o.imports, {"http"})

\* well-formed as the claim words it: every relationship target may use any of
\* the four prefixes
WellFormedAnyPrefix(o) ==
    LET any == {"http", "owl:", "rdfs:", "xsd:"}
    IN  /\ EntityIdsWellFormed(o)
        /\ \A i \in 1..Len(o.classes) : AllHavePrefix(o.classes[i].value.superClasses, any)
        /\ \A i \in 1..Len(o.properties) :
               /\ AllHavePrefix(o.properties[i].value.domain, any)
               /\ AllHavePrefix(o.properties[i].value.range, any)
        /\ \A i \in 1..Len(o.individuals) : AllHavePrefix(o.individuals[i].value.types, any)

\* well-formed per relationship kind: xsd: only for domain and range
WellFormedPerKind(o) ==
    /\ EntityIdsWellFormed(o)
    /\ \A i \in 1..Len(o.classes) :
           AllHavePrefix(o.classes[i].value.superClasses, {"http", "owl:", "rdfs:"})
    /\ \A i \in 1..Len(o.properties) :
           /\ AllHavePrefix(o.properties[i].value.domain, {"http", "owl:", "rdfs:", "xsd:"})
           /\ AllHavePrefix(o.properties[i].value.range, {"http", "owl:", "rdfs:", "xsd:"})
    /\ \A i \in 1..Len(o.individuals) :
           AllHavePrefix(o.individuals[i].value.types, {"http", "owl:", "rdfs:"})

\* C4 as stated: validateOntology returns no error for every ontology whose ids
\* and imports start with http and whose relationship targets (superClasses,
\* domain, range, types) start with http, owl:, rdfs: or xsd:.
ValidAcceptsAnyPrefix ==
    (Validated /\ WellFormedAnyPrefix(call.ontology)) => result.value = <<>>

\* C4 amended: validateOntology returns no error for every ontology whose ids and
\* imports start with http, whose superClasses and individual types start with
\* http, owl: or rdfs:, and whose domain and range entries start with http, owl:,
\* rdfs: or xsd:.
ValidAcceptsWellFormed ==
    (Validated /\ WellFormedPerKind(call.ontology)) => result.value = <<>>

\* a well-formed ontology with a class, a property using xsd: and an individual
ValidAcceptsWitness ==
    /\ Validated
    /\ WellFormedPerKind(call.ontology)
    /\ Len(call.ontology.classes) >= 1
    /\ \E i \in 1..Len(call.ontology.properties) :
           "xsd:string" \in {call.ontology.properties[i].value.range[j] :
                                j \in 1..Len(call.ontology.properties[i].value.range)}
    /\ Len(call.ontology.individuals) >= 1
    /\ Len(call.ontology.imports) >= 1
    /\ result.value = <<>>

\* C5: whenever the ontology id does not start with http (an empty id included),
\* the returned list holds an error mentioning the ontology IRI, whatever other
\* violations there are.
BadOntologyIdReported ==
    (Validated /\ ~HasPrefix(call.ontology.id, {"http"})) =>
        \E k \in 1..Len(result.value) : Includes(result.value[k], "Ontology IRI")

\* a non-empty, non-http ontology id reported next to other violations
BadOntologyIdWitness ==
    /\ Validated
    /\ call.ontology.id = "urn:onto"
    /\ Len(result.value) >= 3
    /\ Includes(result.value[1], "Ontology IRI")

\* the number of violations of an ontology, counted entry by entry
ViolationCount(o) ==
    LET ClassV(c) == (IF HasPrefix(c.id, {"http"}) THEN 0 ELSE 1)
                     + BadCount(c.superClasses, {"http", "owl:", "rdfs:"})
        PropV(p) == (IF HasPrefix(p.id, {"http"}) THEN 0 ELSE 1)
                    + BadCount(p.domain, {"http", "owl:", "rdfs:", "xsd:"})
                    + BadCount(p.range, {"http", "owl:", "rdfs:", "xsd:"})
        IndV(x) == (IF HasPrefix(x.id, {"http"}) THEN 0 ELSE 1)
                   + BadCount(x.types, {"http", "owl:", "rdfs:"})
    IN  (IF HasPrefix(o.id, {"http"}) THEN 0 ELSE 1)
        + SumSeq([i \in 1..Len(o.classes) |-> ClassV(o.classes[i].value)])
        + SumSeq([i \in 1..Len(o.properties) |-> PropV(o.properties[i].value)])
        + SumSeq([i \in 1..Len(o.individuals) |-> IndV(o.individuals[i].value)])
        + BadCount(o.imports, {"http"})

\* some message names both the entity and the offending value
Named(errors, entity, value) ==
    \E k \in 1..Len(errors) : Includes(errors[k], entity) /\ Includes(errors[k], value)

\* every violation of an entity or an import has a message naming it and its value
EntityViolationsNamed(o, errors) ==
    /\ \A i \in 1..Len(o.classes) :
           LET c == o.classes[i].value
           IN  /\ ~HasPrefix(c.id, {"http"}) => Named(errors, "Class " \o c.name, c.id)
               /\ \A j \in 1..Len(c.superClasses) :
                      ~HasPrefix(c.superClasses[j], {"http", "owl:", "rdfs:"})
                          => Named(errors, "Class " \o c.name, c.superClasses[j])
    /\ \A i \in 1..Len(o.properties) :
           LET p == o.properties[i].value
           IN  /\ ~HasPrefix(p.id, {"http"}) => Named(errors, "Property " \o p.name, p.id)
               /\ \A j \in 1..Len(p.domain) :
                      ~HasPrefix(p.domain[j], {"http", "owl:", "rdfs:", "xsd:"})
                          => Named(errors, "Property " \o p.name, "domain: " \o p.domain[j])
               /\ \A j \in 1..Len(p.range) :
                      ~HasPrefix(p.range[j], {"http", "owl:", "rdfs:", "xsd:"})
                          => Named(errors, "Property " \o p.name, "range: " \o p.range[j])
    /\ \A i \in 1..Len(o.individuals) :
           LET x == o.individuals[i].value
           IN  /\ ~HasPrefix(x.id, {"http"}) => Named(errors, "Individual " \o x.name, x.id)
               /\ \A j \in 1..Len(x.types) :
                      ~HasPrefix(x.types[j], {"http", "owl:", "rdfs:"})
                          => Named(errors, "Individual " \o x.name, x.types[j])
    /\ \A j \in 1..Len(o.imports) :
           ~HasPrefix(o.imports[j], {"http"}) => Named(errors, "import", o.imports[j])

\* C6 as stated: one message per violation, none suppressed or deduplicated, and
\* each message names the offending entity and the offending value, the message
\* for the ontology id included.
OneMessagePerViolationAllNamed ==
    Validated =>
        /\ Len(result.value) = ViolationCount(call.ontology)
        /\ EntityViolationsNamed(call.ontology, result.value)
        /\ ~HasPrefix(call.ontology.id, {"http"})
               => Named(result.value, "Ontology", call.ontology.id)

\* C6 amended: one message per violation, none suppressed or deduplicated; each
\* message for an entity id, a relationship entry or an import names the entity
\* (by its name) and the offending value, while the message for the ontology id
\* is the fixed text "Ontology IRI must be a valid HTTP(S) URI".
OneMessagePerViolation ==
    Validated =>
        /\ Len(result.value) = ViolationCount(call.ontology)
        /\ EntityViolationsNamed(call.ontology, result.value)
        /\ ~HasPrefix(call.ontology.id, {"http"})
               => result.value[1] = "Ontology IRI must be a valid HTTP(S) URI"

\* repeated identical violations (the same bad superclass twice, the same bad
\* import twice) each keep their message, after an ontology-id error
OneMessagePerViolationWitness ==
    /\ Validated
    /\ ~HasPrefix(call.ontology.id, {"http"})
    /\ \E i, j \in 1..Len(result.value) :
           i # j /\ result.value[i] = result.value[j]
                 /\ Includes(result.value[i], "superclass")
    /\ \E i, j \in 1..Len(result.value) :
           i # j /\ result.value[i] = result.value[j]
                 /\ Includes(result.value[i], "import")
    /\ Len(result.value) = ViolationCount(call.ontology)

(***************************************************************************)
(* JSON values.  JSON.stringify turns a JavaScript value into a document   *)
(* in which object members holding undefined are left out; JSON.parse      *)
(* gives back the value of the document.                                   *)
(***************************************************************************)
JUndefined == [t |-> "undefined"]
JNull == [t |-> "null"]
JString(s) == [t |-> "string", s |-> s]
JArray(a) == [t |-> "array", a |-> a]
JNumber(n) == [t |-> "number", n |-> n]
JBoolean(b) == [t |-> "boolean", b |-> b]
\* a text that is no JSON document: JSON.parse throws a SyntaxError on it
JMalformed == [t |-> "malformed"]
\* an object is its members in insertion order, each [k |-> key, v |-> value]
JObject(members) == [t |-> "object", m |-> members]
Member(k, v) == [k |-> k, v |-> v]

\* record[key]: undefined when the value is no object or has no such member
JGet(value, key) ==
    IF value.t = "object" /\ \E i \in 1..Len(value.m) : value.m[i].k = key
    THEN value.m[CHOOSE i \in 1..Len(value.m) : value.m[i].k = key].v
    ELSE JUndefined

\* an optional string as a JavaScript value
JOptional(o) == IF IsDefined(o) THEN JString(o[1]) ELSE JUndefined

\* Boolean(value) for the values a document can hold
Truthy(value) ==
    /\ value.t \notin {"undefined", "null"}
    /\ value.t = "string" => value.s # ""
    /\ value.t = "number" => value.n # 0
    /\ value.t = "boolean" => value.b

\* the members of an object that JSON.stringify writes: those not undefined
WrittenMembers(members) ==
    LET keep[i \in 0..Len(members)] ==
            IF i = 0 THEN <<>>
            ELSE IF members[i].v.t = "undefined" THEN keep[i - 1]
                 ELSE Append(keep[i - 1], members[i])
    IN  keep[Len(members)]

\* JSON.parse(JSON.stringify(value)): the document of a value
RECURSIVE JSONDocument(_)
JSONDocument(value) ==
    IF value.t = "array"
    THEN JArray([i \in 1..Len(value.a) |->
                    IF value.a[i].t = "undefined" THEN JNull
                    ELSE JSONDocument(value.a[i])])
    ELSE IF value.t = "object"
    THEN LET w == WrittenMembers(value.m)
         IN  JObject([i \in 1..Len(w) |-> Member(w[i].k, JSONDocument(w[i].v))])
    ELSE value

(***************************************************************************)
(* 4.2 JSON-LD codec: serialize                                            *)
(***************************************************************************)
\* a serializer that writes a single reference as a bare object
IdRefs_Compact(iris) ==
    IF Len(iris) = 1
    THEN JObject(<<Member("@id", JString(iris[1]))>>)
    ELSE JArray([i \in 1..Len(iris) |-> JObject(<<Member("@id", JString(iris[i]))>>)])

\* xs.map(x => ({ '@id': x }))
IdRefs(iris) ==
    JArray([i \in 1..Len(iris) |-> JObject(<<Member("@id", JString(iris[i]))>>)])

\* label || name
LabelOrName(entity) ==
    IF IsDefined(entity.label) /\ entity.label[1] # "" THEN entity.label[1] ELSE entity.name

ClassToJSONLD(cls) ==
    JObject(<<Member("@id", JString(cls.id)),
              Member("@type", JString("owl:Class")),
              Member("rdfs:label", JString(LabelOrName(cls))),
              Member("rdfs:comment", JOptional(cls.description)),
              Member("rdfs:subClassOf", IdRefs(cls.superClasses)),
              Member("owl:disjointWith", IdRefs(cls.disjointWith))>>)

PropertyToJSONLD(prop) ==
    JObject(<<Member("@id", JString(prop.id)),
              Member("@type", JString("owl:" \o prop.type)),
              Member("rdfs:label", JString(LabelOrName(prop))),
              Member("rdfs:comment", JOptional(prop.description)),
              Member("rdfs:domain", IdRefs(prop.domain)),
              Member("rdfs:range", IdRefs(prop.range)),
              Member("rdfs:subPropertyOf", IdRefs(prop.superProperties))>>)

IndividualToJSONLD(ind) ==
    JObject(<<Member("@id", JString(ind.id)),
              Member("@type", IdRefs(ind.types)),
              Member("rdfs:label", JString(LabelOrName(ind)))>>)

JSONLDContext ==
    JObject(<<Member("owl", JString("http://www.w3.org/2002/07/owl#")),
              Member("rdf", JString("http://www.w3.org/1999/02/22-rdf-syntax-ns#")),
              Member("rdfs", JString("http://www.w3.org/2000/01/rdf-schema#")),
              Member("xsd", JString("http://www.w3.org/2001/XMLSchema#"))>>)

serializeToJSONLD(ontology) ==
    JSONDocument(
        JObject(<<Member("@context", JSONLDContext),
                  Member("@id", JString(ontology.id)),
                  Member("@type", JString("owl:Ontology")),
                  Member("owl:versionInfo", JOptional(ontology.version)),
                  Member("owl:imports", IdRefs(ontology.imports)),
                  Member("@graph",
                         JArray([i \in 1..Len(ontology.classes) |->
                                    ClassToJSONLD(ontology.classes[i].value)]
                                \o [i \in 1..Len(ontology.properties) |->
                                       PropertyToJSONLD(ontology.properties[i].value)]
                                \o [i \in 1..Len(ontology.individuals) |->
                                       IndividualToJSONLD(ontology.individuals[i].value)]))>>))

(***************************************************************************)
(* 4.2 JSON-LD codec: parse                                                *)
(***************************************************************************)
\* v => (typeof v === 'string' ? v : v?.['@id']), then filter(Boolean): the
\* string an entry names, as a list of zero or one strings
IdOfEntry(v) ==
    LET named == IF v.t = "string" THEN v ELSE JGet(v, "@id")
    IN  IF named.t = "string" /\ Truthy(named) THEN <<named.s>> ELSE <<>>

\* a reader that takes only the first entry of an array
extractIds_FirstOnly(value) ==
    IF value.t = "array"
    THEN (IF Len(value.a) = 0 THEN <<>> ELSE IdOfEntry(value.a[1]))
    ELSE IF Truthy(value) THEN IdOfEntry(value)
    ELSE <<>>

\* extractIds, and the same expression written inline for rdfs:subClassOf and
\* owl:imports: a string, an {'@id'} object or an array of both, as a string list
extractIds(value) ==
    IF value.t = "array"
    THEN Flatten([i \in 1..Len(value.a) |-> IdOfEntry(value.a[i])])
    ELSE IF Truthy(value) THEN IdOfEntry(value)
    ELSE <<>>

\* record['rdfs:label'] ?? id.split('#').pop() ?? id.split('/').pop() ?? id
\* split('#').pop() is a string, never null or undefined, so ?? stops there.
\* (documents whose rdfs:label is neither a string nor missing are not modelled)
JSONLDLabel(record, id) ==
    LET given == JGet(record, "rdfs:label")
    IN  IF given.t \notin {"undefined", "null"} THEN given.s ELSE SplitPop(id, "#")

\* value as string | undefined
JSONOptionalString(value) == IF value.t = "string" THEN Some(value.s) ELSE Undefined

\* record['rdfs:comment'] as string | undefined
JSONLDComment(record) == JSONOptionalString(JGet(record, "rdfs:comment"))

\* a test for the exact type only
IsClassEntry_ExactOnly(record) ==
    LET type == JGet(record, "@type")
    IN  type.t = "string" /\ type.s = "owl:Class"

IsClassEntry(record) ==
    LET type == JGet(record, "@type")
    IN  type.t = "string" /\ (type.s = "owl:Class" \/ Includes(type.s, "Class"))

IsPropertyEntry(record) ==
    LET type == JGet(record, "@type")
    IN  type.t = "string" /\ Includes(type.s, "Property")

JSONLDPropertyType(type) ==
    IF Includes(type, "Object") THEN "ObjectProperty"
    ELSE IF Includes(type, "Data") THEN "DataProperty"
    ELSE "AnnotationProperty"

ClassFromJSONLD(record) ==
    LET id == JGet(record, "@id").s
        label == JSONLDLabel(record, id)
    IN  OntologyClass(id, label, Some(label), JSONLDComment(record),
                      extractIds(JGet(record, "rdfs:subClassOf")), <<>>, <<>>)

PropertyFromJSONLD(record) ==
    LET id == JGet(record, "@id").s
        label == JSONLDLabel(record, id)
    IN  OntologyProperty(id, label, Some(label), JSONLDComment(record),
                         JSONLDPropertyType(JGet(record, "@type").s),
                         extractIds(JGet(record, "rdfs:domain")),
                         extractIds(JGet(record, "rdfs:range")), <<>>)

\* Array.isArray(root['@graph']) ? root['@graph'] : [root]
JSONLDGraph(root) ==
    IF JGet(root, "@graph").t = "array" THEN JGet(root, "@graph").a ELSE <<root>>

\* (root[key] as string) || fallback
JSONLDStringOr(root, key, fallback) ==
    IF JGet(root, key).t = "string" /\ Truthy(JGet(root, key))
    THEN JGet(root, key).s ELSE fallback

\* const data = JSON.parse(content), which throws on a text that is no JSON
\* document; the Maps are created; a top level with typeof data !== 'object'
\* or data === null throws (typeof of an array is 'object')
parseJSONLD_Begin ==
    /\ pc = "parseJSONLD"
    /\ classes' = <<>>
    /\ properties' = <<>>
    /\ individuals' = <<>>
    /\ IF content.t = "malformed"
       THEN /\ pc' = "thrown"
            /\ cursor' = 0
            /\ result' = [kind |-> "error", value |-> "SyntaxError"]
       ELSE IF content.t \in {"object", "array"}
       THEN /\ pc' = "parseJSONLD:graph"
            /\ cursor' = 1
            /\ UNCHANGED result
       ELSE /\ pc' = "thrown"
            /\ cursor' = 0
            /\ result' = [kind |-> "error", value |-> "Invalid JSON-LD content"]
    /\ UNCHANGED <<call, content, currentSubject, currentType>>

\* one visit of graph.forEach
parseJSONLD_Item ==
    /\ pc = "parseJSONLD:graph"
    /\ cursor <= Len(JSONLDGraph(content))
    /\ LET item == JSONLDGraph(content)[cursor]
       IN  IF item.t # "object" \/ JGet(item, "@id").t # "string"
           THEN UNCHANGED <<classes, properties>>
           ELSE IF IsClassEntry(item)
           THEN /\ classes' = MapSet(classes, JGet(item, "@id").s, ClassFromJSONLD(item))
                /\ UNCHANGED properties
           ELSE IF IsPropertyEntry(item)
           THEN /\ properties' =
                       MapSet(properties, JGet(item, "@id").s, PropertyFromJSONLD(item))
                /\ UNCHANGED classes
           ELSE UNCHANGED <<classes, properties>>
    /\ cursor' = cursor + 1
    /\ UNCHANGED <<pc, call, result, content, individuals, currentSubject, currentType>>

\* the imports are read and the Ontology is returned
parseJSONLD_Return ==
    /\ pc = "parseJSONLD:graph"
    /\ cursor > Len(JSONLDGraph(content))
    /\ result' = [kind |-> "ontology",
                  value |-> Ontology(
                      JSONLDStringOr(content, "@id", "http://example.org/imported-ontology"),
                      JSONLDStringOr(content, "rdfs:label", "Imported Ontology"),
                      JSONOptionalString(JGet(content, "owl:versionInfo")),
                      extractIds(JGet(content, "owl:imports")),
                      classes, properties, individuals)]
    /\ pc' = "done"
    /\ UNCHANGED <<call, content, classes, properties, individuals, cursor,
                   currentSubject, currentType>>

(***************************************************************************)
(* JSON-LD round trip: an ontology is serialized and the text parsed back. *)
(***************************************************************************)
RoundTripSamples == {o \in OntologySamples : o.id = "http://ex.org/onto"}

InitJSONLDRoundTrip ==
    /\ pc = "serializeToJSONLD"
    /\ \E o \in RoundTripSamples : call = [op |-> "jsonldRoundTrip", ontology |-> o]
    /\ result = NoResult
    /\ ParserIdle

serializeToJSONLD_Step ==
    /\ pc = "serializeToJSONLD"
    /\ content' = serializeToJSONLD(call.ontology)
    /\ pc' = "parseJSONLD"
    /\ UNCHANGED <<call, result, classes, properties, individuals, cursor,
                   currentSubject, currentType>>

NextJSONLDRoundTrip ==
    \/ serializeToJSONLD_Step
    \/ parseJSONLD_Begin
    \/ parseJSONLD_Item
    \/ parseJSONLD_Return

SpecJSONLDRoundTrip == InitJSONLDRoundTrip /\ [][NextJSONLDRoundTrip]_vars

Keys(m) == {m[i].key : i \in 1..Len(m)}

\* the same keys and, under each key, an entity equal in every field
SameEntities(m1, m2) ==
    /\ Keys(m1) = Keys(m2)
    /\ \A k \in Keys(m1) : MapGet(m1, k) = MapGet(m2, k)

RoundTripDone == pc = "done" /\ call.op = "jsonldRoundTrip"

\* C1: parseJSONLD(serializeToJSONLD(O)) has the same classes and properties as
\* O: the same keys and, under each key, an entity equal to the original in
\* every field (individuals are not compared).
JSONLDRoundTripIdentity ==
    RoundTripDone =>
        /\ SameEntities(result.value.classes, call.ontology.classes)
        /\ SameEntities(result.value.properties, call.ontology.properties)

\* the JSON value is an array with one {"@id": iri} object per entry, in order
IsIdRefArray(value, iris) ==
    /\ value.t = "array"
    /\ Len(value.a) = Len(iris)
    /\ \A i \in 1..Len(iris) :
           /\ value.a[i].t = "object"
           /\ Len(value.a[i].m) = 1
           /\ value.a[i].m[1].k = "@id"
           /\ value.a[i].m[1].v.t = "string"
           /\ value.a[i].m[1].v.s = iris[i]

Serialized == pc = "parseJSONLD" /\ call.op = "jsonldRoundTrip"

\* C3: in the output of serializeToJSONLD, owl:imports, every relationship field
\* of every entity and every individual's @type is an array of {"@id": iri}
\* objects, one per source entry in source order, also for zero or one entries.
JSONLDReferencesAreArrays ==
    Serialized =>
        LET o == call.ontology
            graph == JGet(content, "@graph").a
            nc == Len(o.classes)
            np == Len(o.properties)
        IN  /\ IsIdRefArray(JGet(content, "owl:imports"), o.imports)
            /\ Len(graph) = nc + np + Len(o.individuals)
            /\ \A i \in 1..nc :
                   /\ IsIdRefArray(JGet(graph[i], "rdfs:subClassOf"),
                                   o.classes[i].value.superClasses)
                   /\ IsIdRefArray(JGet(graph[i], "owl:disjointWith"),
                                   o.classes[i].value.disjointWith)
            /\ \A i \in 1..np :
                   /\ IsIdRefArray(JGet(graph[nc + i], "rdfs:domain"), o.properties[i].value.domain)
                   /\ IsIdRefArray(JGet(graph[nc + i], "rdfs:range"), o.properties[i].value.range)
                   /\ IsIdRefArray(JGet(graph[nc + i], "rdfs:subPropertyOf"),
                                   o.properties[i].value.superProperties)
            /\ \A i \in 1..Len(o.individuals) :
                   IsIdRefArray(JGet(graph[nc + np + i], "@type"), o.individuals[i].value.types)

\* an ontology with exactly one import, a class with one superclass and an
\* individual with one type, serialized with arrays of length 1
JSONLDSingleImportWitness ==
    /\ Serialized
    /\ Len(call.ontology.imports) = 1
    /\ JGet(content, "owl:imports").t = "array"
    /\ Len(JGet(content, "owl:imports").a) = 1
    /\ \E i \in 1..Len(call.ontology.classes) :
           /\ Len(call.ontology.classes[i].value.superClasses) = 1
           /\ Len(JGet(JGet(content, "@graph").a[i], "rdfs:subClassOf").a) = 1
           /\ JGet(JGet(content, "@graph").a[i], "owl:disjointWith") = JArray(<<>>)
    /\ \E i \in 1..Len(call.ontology.individuals) :
           Len(call.ontology.individuals[i].value.types) = 1

(***************************************************************************)
(* XML documents.  An element is [tag, attrs, text, children]: its         *)
(* qualified tag name as written, its attributes as written, its own text  *)
(* and its child elements.  The document read by DOMParser is its root     *)
(* element.                                                                *)
(***************************************************************************)
Attr(name, value) == [name |-> name, value |-> value]
Elem(tag, attrs, text, children) ==
    [tag |-> tag, attrs |-> attrs, text |-> text, children |-> children]

\* an element followed by its descendants, in document order
RECURSIVE PreOrder(_)
PreOrder(el) ==
    <<el>> \o Flatten([i \in 1..Len(el.children) |-> PreOrder(el.children[i])])

Descendants(el) == Tail(PreOrder(el))

\* Node.textContent
RECURSIVE TextContent(_)
TextContent(el) ==
    LET parts == [i \in 1..Len(el.children) |-> TextContent(el.children[i])]
        join[i \in 0..Len(parts)] == IF i = 0 THEN el.text ELSE join[i - 1] \o parts[i]
    IN  join[Len(parts)]

\* the selector 'local, prefix\\:local': the tag spelled with or without prefix
MatchesTag(el, local, prefix) == el.tag = local \/ el.tag = prefix \o ":" \o local

\* querySelectorAll('local, prefix\\:local') over a list of elements
QuerySelectorAll(elements, local, prefix) ==
    LET Test(el) == MatchesTag(el, local, prefix)
    IN  SelectSeq(elements, Test)

\* Element.getAttribute: null (Undefined) when the attribute is not written
GetAttribute(el, name) ==
    IF \E i \in 1..Len(el.attrs) : el.attrs[i].name = name
    THEN Some(el.attrs[CHOOSE i \in 1..Len(el.attrs) : el.attrs[i].name = name].value)
    ELSE Undefined

RDFNamespace == "http://www.w3.org/1999/02/22-rdf-syntax-ns#"
XMLNamespace == "http://www.w3.org/XML/1998/namespace"

\* Element.getAttributeNS under the bindings the serializer declares
\* (xmlns:rdf, and the built-in xml prefix)
ElementGetAttributeNS(el, namespace, localName) ==
    IF namespace = RDFNamespace THEN GetAttribute(el, "rdf:" \o localName)
    ELSE IF namespace = XMLNamespace THEN GetAttribute(el, "xml:" \o localName)
    ELSE Undefined

\* an optional string that is neither null nor ""
TruthyString(o) == IsDefined(o) /\ o[1] # ""

\* a || b || ... : the first truthy operand, null when there is none
FirstTruthy(options) ==
    LET hits == {i \in 1..Len(options) : TruthyString(options[i])}
    IN  IF hits = {} THEN Undefined
        ELSE options[CHOOSE i \in hits : \A j \in hits : i <= j]

\* an attribute lookup that knows only the prefixed spellings
getAttributeNS_PrefixedOnly(element, localName, namespace) ==
    FirstTruthy(<<GetAttribute(element, "rdf:" \o localName),
                  GetAttribute(element, "owl:" \o localName),
                  ElementGetAttributeNS(element, namespace, localName)>>)

\* the helper getAttributeNS(element, localName, namespace) for an element that
\* is not null: the value, or null (Undefined)
getAttributeNS(element, localName, namespace) ==
    FirstTruthy(<<GetAttribute(element, "rdf:" \o localName),
                  GetAttribute(element, "owl:" \o localName),
                  GetAttribute(element, localName),
                  ElementGetAttributeNS(element, namespace, localName)>>)

(***************************************************************************)
(* 4.4 RDF/XML codec: parse                                                *)
(***************************************************************************)
\* id.split('#').pop() || id.split('/').pop() || id
IRILabel(id) ==
    IF SplitPop(id, "#") # "" THEN SplitPop(id, "#")
    ELSE IF SplitPop(id, "/") # "" THEN SplitPop(id, "/")
    ELSE id

\* node.querySelector('local, prefix\\:local')?.textContent, null when no match
ChildText(node, local, prefix) ==
    LET hits == QuerySelectorAll(Descendants(node), local, prefix)
    IN  IF hits = <<>> THEN Undefined ELSE Some(TextContent(hits[1]))

\* node.querySelector('label, rdfs\\:label')?.textContent || <IRI fallback>
XMLLabel(node, id) ==
    IF TruthyString(ChildText(node, "label", "rdfs"))
    THEN ChildText(node, "label", "rdfs")[1]
    ELSE IRILabel(id)

\* node.querySelector('comment, rdfs\\:comment')?.textContent || undefined
XMLComment(node) == FirstTruthy(<<ChildText(node, "comment", "rdfs")>>)

\* the resource attributes of the matching descendants, nulls filtered out
Resources(node, local, prefix) ==
    LET hits == QuerySelectorAll(Descendants(node), local, prefix)
    IN  Flatten([i \in 1..Len(hits) |-> getAttributeNS(hits[i], "resource", RDFNamespace)])

\* the same, each resource resolved against xml:base
ResolvedResources(node, local, prefix, xmlBase) ==
    LET raw == Resources(node, local, prefix)
    IN  [i \in 1..Len(raw) |-> resolveIRI(raw[i], xmlBase)]

AllElements(doc) == PreOrder(doc)

\* rdfRoot?.getAttribute('xml:base') || rdfRoot?.getAttributeNS(XML, 'base') || ''
XMLBase(doc) ==
    LET roots == QuerySelectorAll(AllElements(doc), "RDF", "rdf")
    IN  IF roots = <<>> THEN ""
        ELSE LET found == FirstTruthy(<<GetAttribute(roots[1], "xml:base"),
                                        ElementGetAttributeNS(roots[1], XMLNamespace, "base")>>)
             IN  IF IsDefined(found) THEN found[1] ELSE ""

OntologyNodes(doc) == QuerySelectorAll(AllElements(doc), "Ontology", "owl")

\* getAttributeNS(ontologyNode, 'about', RDF) || xmlBase || fallback
XMLOntologyId(doc) ==
    LET about == IF OntologyNodes(doc) = <<>> THEN Undefined
                 ELSE getAttributeNS(OntologyNodes(doc)[1], "about", RDFNamespace)
    IN  IF IsDefined(about) THEN about[1]
        ELSE IF XMLBase(doc) # "" THEN XMLBase(doc)
        ELSE "http://example.org/ontology"

XMLVersionInfo(doc) ==
    IF OntologyNodes(doc) = <<>> THEN Undefined
    ELSE FirstTruthy(<<ChildText(OntologyNodes(doc)[1], "versionInfo", "owl")>>)

XMLImports(doc) ==
    IF OntologyNodes(doc) = <<>> THEN <<>>
    ELSE Resources(OntologyNodes(doc)[1], "imports", "owl")

\* a class pass that adds the superclasses of a repeated class to the stored one
ClassVisit_Merge(cls, node) ==
    LET id == getAttributeNS(node, "about", RDFNamespace)
    IN  IF ~IsDefined(id) THEN cls
        ELSE IF MapHas(cls, id[1])
        THEN MapSet(cls, id[1],
                    [MapGet(cls, id[1]) EXCEPT
                        !.superClasses = @ \o Resources(node, "subClassOf", "rdfs")])
        ELSE MapSet(cls, id[1],
                    OntologyClass(id[1], XMLLabel(node, id[1]), Some(XMLLabel(node, id[1])),
                                  XMLComment(node),
                                  Resources(node, "subClassOf", "rdfs"),
                                  Resources(node, "disjointWith", "owl"),
                                  Resources(node, "equivalentClass", "owl")))

\* classNodes.forEach callback
ClassVisit(cls, node) ==
    LET id == getAttributeNS(node, "about", RDFNamespace)
    IN  IF ~IsDefined(id) THEN cls
        ELSE MapSet(cls, id[1],
                    OntologyClass(id[1], XMLLabel(node, id[1]), Some(XMLLabel(node, id[1])),
                                  XMLComment(node),
                                  Resources(node, "subClassOf", "rdfs"),
                                  Resources(node, "disjointWith", "owl"),
                                  Resources(node, "equivalentClass", "owl")))

\* the property nodes in visiting order, each with its internal type
PropertyNodes(doc) ==
    LET Of(name, internal) ==
            LET hits == QuerySelectorAll(AllElements(doc), name, "owl")
            IN  [i \in 1..Len(hits) |-> [node |-> hits[i], internal |-> internal]]
    IN  Of("ObjectProperty", "ObjectProperty")
        \o Of("DatatypeProperty", "DataProperty")
        \o Of("AnnotationProperty", "AnnotationProperty")

\* propNodes.forEach callback
PropertyVisit(props, node, internalType) ==
    LET id == getAttributeNS(node, "about", RDFNamespace)
    IN  IF ~IsDefined(id) THEN props
        ELSE MapSet(props, id[1],
                    OntologyProperty(id[1], XMLLabel(node, id[1]),
                                     Some(XMLLabel(node, id[1])), XMLComment(node),
                                     internalType,
                                     Resources(node, "domain", "rdfs"),
                                     Resources(node, "range", "rdfs"),
                                     Resources(node, "subPropertyOf", "rdfs")))

\* the Individual both individual passes build from a node and its resolved id
XMLIndividual(node, id, xmlBase) ==
    Individual(id, XMLLabel(node, id), Some(XMLLabel(node, id)),
               ResolvedResources(node, "type", "rdf", xmlBase),
               ResolvedResources(node, "sameAs", "owl", xmlBase),
               ResolvedResources(node, "differentFrom", "owl", xmlBase))

\* a first pass that stores the individual under the about attribute as written
IndividualVisit_RawKey(inds, node, xmlBase) ==
    LET rawId == getAttributeNS(node, "about", RDFNamespace)
    IN  IF ~IsDefined(rawId) THEN inds
        ELSE MapSet(inds, rawId[1],
                    XMLIndividual(node, resolveIRI(rawId[1], xmlBase), xmlBase))

\* individualNodes.forEach callback
IndividualVisit(inds, node, xmlBase) ==
    LET rawId == getAttributeNS(node, "about", RDFNamespace)
    IN  IF ~IsDefined(rawId) THEN inds
        ELSE LET id == resolveIRI(rawId[1], xmlBase)
             IN  MapSet(inds, id, XMLIndividual(node, id, xmlBase))

\* querySelectorAll('[rdf\\:about], [about]')
AboutElements(doc) ==
    LET Test(el) == IsDefined(GetAttribute(el, "rdf:about"))
                    \/ IsDefined(GetAttribute(el, "about"))
    IN  SelectSeq(AllElements(doc), Test)

isOntologyConstruct(tagName) ==
    \/ Includes(tagName, "Ontology")
    \/ Includes(tagName, "Class")
    \/ Includes(tagName, "Property")
    \/ tagName = "RDF"
    \/ tagName = "rdf:RDF"

\* a second pass that records only elements with rdf:type children
TypedVisit_TypesOnly(inds, cls, props, node, xmlBase) ==
    LET rawId == getAttributeNS(node, "about", RDFNamespace)
    IN  IF ~IsDefined(rawId) THEN inds
        ELSE LET id == resolveIRI(rawId[1], xmlBase)
                 types == ResolvedResources(node, "type", "rdf", xmlBase)
             IN  IF MapHas(inds, id) \/ MapHas(cls, id) \/ MapHas(props, id) THEN inds
                 ELSE IF Len(types) > 0
                 THEN MapSet(inds, id, XMLIndividual(node, id, xmlBase))
                 ELSE inds

\* a second pass without the 'already processed' test
TypedVisit_NoSkip(inds, cls, props, node, xmlBase) ==
    LET rawId == getAttributeNS(node, "about", RDFNamespace)
    IN  IF ~IsDefined(rawId) THEN inds
        ELSE LET id == resolveIRI(rawId[1], xmlBase)
                 types == ResolvedResources(node, "type", "rdf", xmlBase)
             IN  IF Len(types) > 0 \/ (~isOntologyConstruct(node.tag) /\ id # "")
                 THEN MapSet(inds, id, XMLIndividual(node, id, xmlBase))
                 ELSE inds

\* allElements.forEach callback
TypedVisit(inds, cls, props, node, xmlBase) ==
    LET rawId == getAttributeNS(node, "about", RDFNamespace)
    IN  IF ~IsDefined(rawId) THEN inds
        ELSE LET id == resolveIRI(rawId[1], xmlBase)
                 types == ResolvedResources(node, "type", "rdf", xmlBase)
             IN  IF MapHas(inds, id) \/ MapHas(cls, id) \/ MapHas(props, id) THEN inds
                 ELSE IF Len(types) > 0 \/ (~isOntologyConstruct(node.tag) /\ id # "")
                 THEN MapSet(inds, id, XMLIndividual(node, id, xmlBase))
                 ELSE inds

ClassNodes(doc) == QuerySelectorAll(AllElements(doc), "Class", "owl")
IndividualNodes(doc) == QuerySelectorAll(AllElements(doc), "NamedIndividual", "owl")
ParserErrors(doc) ==
    LET Test(el) == el.tag = "parsererror"
    IN  SelectSeq(AllElements(doc), Test)

\* the four passes as wholes
ClassPass(doc) ==
    LET nodes == ClassNodes(doc)
        acc[i \in 0..Len(nodes)] == IF i = 0 THEN <<>> ELSE ClassVisit(acc[i - 1], nodes[i])
    IN  acc[Len(nodes)]

PropertyPass(doc) ==
    LET nodes == PropertyNodes(doc)
        acc[i \in 0..Len(nodes)] ==
            IF i = 0 THEN <<>>
            ELSE PropertyVisit(acc[i - 1], nodes[i].node, nodes[i].internal)
    IN  acc[Len(nodes)]

IndividualPass(doc) ==
    LET nodes == IndividualNodes(doc)
        acc[i \in 0..Len(nodes)] ==
            IF i = 0 THEN <<>> ELSE IndividualVisit(acc[i - 1], nodes[i], XMLBase(doc))
    IN  acc[Len(nodes)]

TypedPass(doc) ==
    LET nodes == AboutElements(doc)
        cls == ClassPass(doc)
        props == PropertyPass(doc)
        acc[i \in 0..Len(nodes)] ==
            IF i = 0 THEN IndividualPass(doc)
            ELSE TypedVisit(acc[i - 1], cls, props, nodes[i], XMLBase(doc))
    IN  acc[Len(nodes)]

\* name: ontologyId.split('#').pop() || ontologyId.split('/').pop() || 'Imported Ontology'
XMLOntologyName(ontologyId) ==
    IF SplitPop(ontologyId, "#") # "" THEN SplitPop(ontologyId, "#")
    ELSE IF SplitPop(ontologyId, "/") # "" THEN SplitPop(ontologyId, "/")
    ELSE "Imported Ontology"

\* parseOWLXML as a function of the document
parseOWLXML(doc) ==
    IF ParserErrors(doc) # <<>>
    THEN [kind |-> "error", value |-> "Invalid XML: " \o TextContent(ParserErrors(doc)[1])]
    ELSE [kind |-> "ontology",
          value |-> Ontology(XMLOntologyId(doc), XMLOntologyName(XMLOntologyId(doc)),
                             XMLVersionInfo(doc), XMLImports(doc),
                             ClassPass(doc), PropertyPass(doc), TypedPass(doc))]

\* a start that does not look for the parser-error marker
parseOWLXML_Begin_NoErrorCheck ==
    /\ pc = "parseOWLXML"
    /\ classes' = <<>>
    /\ properties' = <<>>
    /\ individuals' = <<>>
    /\ pc' = "parseOWLXML:classes"
    /\ cursor' = 1
    /\ UNCHANGED <<call, result, content, currentSubject, currentType>>

\* parseOWLXML step by step.  DOMParser.parseFromString, the parsererror check
\* and the creation of the three Maps
parseOWLXML_Begin ==
    /\ pc = "parseOWLXML"
    /\ classes' = <<>>
    /\ properties' = <<>>
    /\ individuals' = <<>>
    /\ IF ParserErrors(content) # <<>>
       THEN /\ pc' = "thrown"
            /\ cursor' = 0
            /\ result' = [kind |-> "error",
                          value |-> "Invalid XML: " \o TextContent(ParserErrors(content)[1])]
       ELSE /\ pc' = "parseOWLXML:classes"
            /\ cursor' = 1
            /\ UNCHANGED result
    /\ UNCHANGED <<call, content, currentSubject, currentType>>

parseOWLXML_Class ==
    /\ pc = "parseOWLXML:classes"
    /\ cursor <= Len(ClassNodes(content))
    /\ classes' = ClassVisit(classes, ClassNodes(content)[cursor])
    /\ cursor' = cursor + 1
    /\ UNCHANGED <<pc, call, result, content, properties, individuals,
                   currentSubject, currentType>>

parseOWLXML_Property ==
    /\ pc = "parseOWLXML:properties"
    /\ cursor <= Len(PropertyNodes(content))
    /\ properties' = PropertyVisit(properties, PropertyNodes(content)[cursor].node,
                                   PropertyNodes(content)[cursor].internal)
    /\ cursor' = cursor + 1
    /\ UNCHANGED <<pc, call, result, content, classes, individuals,
                   currentSubject, currentType>>

parseOWLXML_Individual ==
    /\ pc = "parseOWLXML:individuals"
    /\ cursor <= Len(IndividualNodes(content))
    /\ individuals' = IndividualVisit(individuals, IndividualNodes(content)[cursor],
                                      XMLBase(content))
    /\ cursor' = cursor + 1
    /\ UNCHANGED <<pc, call, result, content, classes, properties,
                   currentSubject, currentType>>

parseOWLXML_Typed ==
    /\ pc = "parseOWLXML:typed"
    /\ cursor <= Len(AboutElements(content))
    /\ individuals' = TypedVisit(individuals, classes, properties,
                                 AboutElements(content)[cursor], XMLBase(content))
    /\ cursor' = cursor + 1
    /\ UNCHANGED <<pc, call, result, content, classes, properties,
                   currentSubject, currentType>>

\* one forEach has visited all its nodes: the next querySelectorAll
parseOWLXML_NextPass ==
    /\ \/ /\ pc = "parseOWLXML:classes"
          /\ cursor > Len(ClassNodes(content))
          /\ pc' = "parseOWLXML:properties"
       \/ /\ pc = "parseOWLXML:properties"
          /\ cursor > Len(PropertyNodes(content))
          /\ pc' = "parseOWLXML:individuals"
       \/ /\ pc = "parseOWLXML:individuals"
          /\ cursor > Len(IndividualNodes(content))
          /\ pc' = "parseOWLXML:typed"
    /\ cursor' = 1
    /\ UNCHANGED <<call, result, content, classes, properties, individuals,
                   currentSubject, currentType>>

parseOWLXML_Return ==
    /\ pc = "parseOWLXML:typed"
    /\ cursor > Len(AboutElements(content))
    /\ result' = [kind |-> "ontology",
                  value |-> Ontology(XMLOntologyId(content),
                                     XMLOntologyName(XMLOntologyId(content)),
                                     XMLVersionInfo(content), XMLImports(content),
                                     classes, properties, individuals)]
    /\ pc' = "done"
    /\ UNCHANGED <<call, content, classes, properties, individuals, cursor,
                   currentSubject, currentType>>

(***************************************************************************)
(* RDF/XML documents the parser is run on.                                 *)
(***************************************************************************)
Leaf(tag, attrs, text) == Elem(tag, attrs, text, <<>>)
Ref(tag, iri) == Leaf(tag, <<Attr("rdf:resource", iri)>>, "")

XMLNodeSamples ==
    {Elem("owl:Ontology", <<Attr("rdf:about", "http://ex.org/onto")>>, "",
          <<Leaf("owl:versionInfo", <<>>, "1.0"), Ref("owl:imports", "http://ex.org/other")>>),
     Elem("owl:Ontology", <<Attr("rdf:about", "http://ex.org/o2")>>, "",
          <<Leaf("rdf:type", <<>>, "")>>),
     Elem("owl:Class", <<Attr("rdf:about", "http://ex.org#A")>>, "",
          <<Leaf("rdfs:label", <<>>, "Ay"), Ref("rdfs:subClassOf", "http://ex.org#B"),
            Ref("owl:disjointWith", "http://ex.org#C")>>),
     Elem("owl:Class", <<Attr("rdf:about", "http://ex.org/Person")>>, "", <<>>),
     Elem("owl:Class", <<Attr("rdf:about", "#Rel")>>, "", <<Ref("rdf:type", "#Meta")>>),
     Elem("owl:Class", <<Attr("rdf:about", "")>>, "", <<>>),
     Elem("owl:ObjectProperty", <<Attr("rdf:about", "#p")>>, "",
          <<Leaf("rdfs:comment", <<>>, "note"), Ref("rdfs:domain", "http://ex.org#A"),
            Ref("rdfs:range", "xsd:string")>>),
     Elem("owl:NamedIndividual", <<Attr("rdf:about", "#fluffy1")>>, "",
          <<Ref("rdf:type", "#Cat"), Leaf("rdfs:label", <<>>, "Fluffy")>>),
     Elem("ex:Fluffy", <<Attr("rdf:about", "http://ex.org#fluffy1")>>, "", <<>>),
     Elem("rdf:Description", <<Attr("rdf:about", "#tom")>>, "",
          <<Ref("rdf:type", "http://ex.org#Cat"), Ref("owl:sameAs", "#fluffy1")>>),
     Elem("ex:SchoolClass", <<Attr("rdf:about", "http://ex.org#c1")>>, "", <<>>),
     Leaf("parsererror", <<>>, "unclosed tag")}

XMLBaseSamples == {<<>>, <<Attr("xml:base", "http://ex.org#")>>}

MaxNodes == 2

\* the documents: an rdf:RDF root, with or without xml:base, over at most
\* MaxNodes nodes
XMLDocumentSamples ==
    {Elem("rdf:RDF", base, "", nodes) :
        base \in XMLBaseSamples,
        nodes \in UNION {[1..k -> XMLNodeSamples] : k \in 0..MaxNodes}}

\* a name without its owl: / rdf: / rdfs: prefix
Unprefixed(name) ==
    IF StartsWith(name, "owl:") \/ StartsWith(name, "rdf:") THEN SubSeq(name, 5, Len(name))
    ELSE IF StartsWith(name, "rdfs:") THEN SubSeq(name, 6, Len(name))
    ELSE name

\* the same document written without owl: / rdf: / rdfs: prefixes
RECURSIVE WithoutPrefixes(_)
WithoutPrefixes(el) ==
    Elem(Unprefixed(el.tag),
         [i \in 1..Len(el.attrs) |-> Attr(Unprefixed(el.attrs[i].name), el.attrs[i].value)],
         el.text,
         [i \in 1..Len(el.children) |-> WithoutPrefixes(el.children[i])])

InitOWLXML ==
    /\ pc = "parseOWLXML"
    /\ \E doc \in XMLDocumentSamples, spelling \in {"prefixed", "unprefixed"} :
           /\ call = [op |-> "parseOWLXML", document |-> doc, spelling |-> spelling]
           /\ content = IF spelling = "prefixed" THEN doc ELSE WithoutPrefixes(doc)
    /\ result = NoResult
    /\ classes = <<>>
    /\ properties = <<>>
    /\ individuals = <<>>
    /\ cursor = 0
    /\ currentSubject = Undefined
    /\ currentType = Undefined

NextOWLXML ==
    \/ parseOWLXML_Begin
    \/ parseOWLXML_Class
    \/ parseOWLXML_Property
    \/ parseOWLXML_Individual
    \/ parseOWLXML_Typed
    \/ parseOWLXML_NextPass
    \/ parseOWLXML_Return

SpecOWLXML == InitOWLXML /\ [][NextOWLXML]_vars

Parsed(op) == pc = "done" /\ call.op = op

\* C7: parseOWLXML returns the same classes, properties and individuals for a
\* document written without namespace prefixes on elements and attributes as
\* for the same document written with owl: / rdf: / rdfs: prefixes.
PrefixesDoNotMatter ==
    Parsed("parseOWLXML") =>
        LET other == parseOWLXML(IF call.spelling = "prefixed"
                                 THEN WithoutPrefixes(call.document)
                                 ELSE call.document)
        IN  /\ other.kind = "ontology"
            /\ result.value.classes = other.value.classes
            /\ result.value.properties = other.value.properties
            /\ result.value.individuals = other.value.individuals

\* <Class about="http://ex.org#A"> with unprefixed label and subClassOf / resource,
\* next to an unprefixed individual, parsed to a labelled class and an individual
PrefixesDoNotMatterWitness ==
    /\ Parsed("parseOWLXML")
    /\ call.spelling = "unprefixed"
    /\ \E i \in 1..Len(content.children) :
           /\ content.children[i].tag = "Class"
           /\ GetAttribute(content.children[i], "about") = Some("http://ex.org#A")
    /\ MapHas(result.value.classes, "http://ex.org#A")
    /\ MapGet(result.value.classes, "http://ex.org#A").label = Some("Ay")
    /\ MapGet(result.value.classes, "http://ex.org#A").superClasses = <<"http://ex.org#B">>
    /\ Len(result.value.individuals) >= 1

\* the second pass is about to visit a node
TypedVisiting == pc = "parseOWLXML:typed" /\ cursor <= Len(AboutElements(content))
VisitedNode == AboutElements(content)[cursor]

\* the about attribute as written, with or without prefix ("" when it is empty)
AboutOf(node) ==
    IF IsDefined(GetAttribute(node, "rdf:about")) /\ GetAttribute(node, "rdf:about")[1] # ""
    THEN GetAttribute(node, "rdf:about")[1]
    ELSE IF IsDefined(GetAttribute(node, "about")) THEN GetAttribute(node, "about")[1]
    ELSE GetAttribute(node, "rdf:about")[1]

AlreadyKey(id) == MapHas(classes, id) \/ MapHas(properties, id) \/ MapHas(individuals, id)

\* the rdf:type elements below a node
TypeElements(node) ==
    LET Test(el) == el.tag \in {"type", "rdf:type"}
    IN  SelectSeq(Descendants(node), Test)

\* those that name a type: a non-empty resource attribute
TypeElementsWithResource(node) ==
    LET Test(el) == \E n \in {"rdf:resource", "owl:resource", "resource"} :
                        TruthyString(GetAttribute(el, n))
    IN  SelectSeq(TypeElements(node), Test)

\* the tag name without its prefix
LocalName(tag) == SubSeq(tag, LastIndexOf(tag, ":") + 1, Len(tag))

\* the visit records the node under id as an individual
RecordedAs(id, node) ==
    /\ Len(individuals') = Len(individuals) + 1
    /\ MapHas(individuals', id)
    /\ MapGet(individuals', id).id = id
    /\ TypeElements(node) = <<>> => MapGet(individuals', id).types = <<>>

RECURSIVE Split(_, _)
Split(s, c) ==
    LET cuts == {i \in 1..Len(s) : SubSeq(s, i, i) = c}
    IN  IF cuts = {} THEN <<s>>
        ELSE LET i == CHOOSE x \in cuts : \A y \in cuts : x <= y
             IN  <<SubSeq(s, 1, i - 1)>> \o Split(SubSeq(s, i + 1, Len(s)), c)

\* String.prototype.trim
Trim(s) ==
    LET keep == {i \in 1..Len(s) : SubSeq(s, i, i) \notin {" ", "\t", "\r", "\n"}}
    IN  IF keep = {} THEN ""
        ELSE SubSeq(s, CHOOSE i \in keep : \A j \in keep : i <= j,
                       CHOOSE i \in keep : \A j \in keep : j <= i)

\* the position of the first c at or after from, 0 when there is none
IndexFrom(s, c, from) ==
    LET hits == {i \in from..Len(s) : SubSeq(s, i, i) = c}
    IN  IF hits = {} THEN 0 ELSE CHOOSE i \in hits : \A j \in hits : i <= j

\* line.match(/<([^>]+)>/)?.[1] and line.match(/"([^"]+)"/)?.[1]: the leftmost
\* opener that is followed by one or more characters other than the closer and
\* then the closer; the group is the text in between, null when nothing matches
MatchGroup(line, opener, closer) ==
    LET starts == {i \in 1..Len(line) :
                      /\ SubSeq(line, i, i) = opener
                      /\ IndexFrom(line, closer, i + 1) > i + 1}
    IN  IF starts = {} THEN Undefined
        ELSE LET i == CHOOSE x \in starts : \A y \in starts : x <= y
             IN  Some(SubSeq(line, i + 1, IndexFrom(line, closer, i + 1) - 1))

\* the class and the property the reader creates for a subject
TurtleClass(subject) ==
    OntologyClass(subject, IRILabel(subject), Undefined, Undefined, <<>>, <<>>, <<>>)
TurtleProperty(subject, type) ==
    OntologyProperty(subject, IRILabel(subject), Undefined, Undefined, type, <<>>, <<>>, <<>>)

\* the reader's state between two lines
TurtleState(cls, props, subject, type) ==
    [classes |-> cls, properties |-> props, currentSubject |-> subject, currentType |-> type]

\* a reader that forgets the subject at the end of each line
TurtleVisit_SubjectPerLine(st, rawLine) ==
    LET line == Trim(rawLine)
        subject == MatchGroup(line, "<", ">")
        isClass == Includes(line, "owl:Class") /\ TruthyString(subject)
        cls == IF isClass THEN MapSet(st.classes, subject[1], TurtleClass(subject[1]))
               ELSE st.classes
    IN  IF StartsWith(line, "@prefix") \/ StartsWith(line, "#") \/ line = "" THEN st
        ELSE TurtleState(cls, st.properties, Undefined,
                         IF isClass THEN Some("class") ELSE st.currentType)

\* a reader whose label goes to the subject of the lines before
TurtleVisit_LabelPreviousSubject(st, rawLine) ==
    LET line == Trim(rawLine)
        subjectMatch == MatchGroup(line, "<", ">")
        subject == IF IsDefined(subjectMatch) THEN subjectMatch ELSE st.currentSubject
        target == IF IsDefined(st.currentSubject) THEN st.currentSubject ELSE subject
        isClass == Includes(line, "owl:Class") /\ TruthyString(subject)
        cls == IF isClass THEN MapSet(st.classes, subject[1], TurtleClass(subject[1]))
               ELSE st.classes
        isProperty == /\ \/ Includes(line, "owl:ObjectProperty")
                         \/ Includes(line, "owl:DatatypeProperty")
                      /\ TruthyString(subject)
        type == IF Includes(line, "owl:ObjectProperty") THEN "ObjectProperty"
                ELSE "DataProperty"
        props == IF isProperty
                 THEN MapSet(st.properties, subject[1], TurtleProperty(subject[1], type))
                 ELSE st.properties
        kind == IF isProperty THEN Some("property")
                ELSE IF isClass THEN Some("class")
                ELSE st.currentType
        labelMatch == IF Includes(line, "rdfs:label") /\ TruthyString(target)
                      THEN MatchGroup(line, "\"", "\"")
                      ELSE Undefined
        toClass == IsDefined(labelMatch) /\ kind = Some("class") /\ MapHas(cls, target[1])
        toProperty == /\ IsDefined(labelMatch) /\ ~toClass
                      /\ kind = Some("property") /\ MapHas(props, target[1])
    IN  IF StartsWith(line, "@prefix") \/ StartsWith(line, "#") \/ line = "" THEN st
        ELSE TurtleState(
                 IF toClass
                 THEN MapSet(cls, target[1],
                             [MapGet(cls, target[1]) EXCEPT !.label = labelMatch])
                 ELSE cls,
                 IF toProperty
                 THEN MapSet(props, target[1],
                             [MapGet(props, target[1]) EXCEPT !.label = labelMatch])
                 ELSE props,
                 subject, kind)

\* lines.forEach callback
TurtleVisit(st, rawLine) ==
    LET line == Trim(rawLine)
        subjectMatch == MatchGroup(line, "<", ">")
        subject == IF IsDefined(subjectMatch) THEN subjectMatch ELSE st.currentSubject
        isClass == Includes(line, "owl:Class") /\ TruthyString(subject)
        cls == IF isClass THEN MapSet(st.classes, subject[1], TurtleClass(subject[1]))
               ELSE st.classes
        isProperty == /\ \/ Includes(line, "owl:ObjectProperty")
                         \/ Includes(line, "owl:DatatypeProperty")
                      /\ TruthyString(subject)
        type == IF Includes(line, "owl:ObjectProperty") THEN "ObjectProperty"
                ELSE "DataProperty"
        props == IF isProperty
                 THEN MapSet(st.properties, subject[1], TurtleProperty(subject[1], type))
                 ELSE st.properties
        kind == IF isProperty THEN Some("property")
                ELSE IF isClass THEN Some("class")
                ELSE st.currentType
        labelMatch == IF Includes(line, "rdfs:label") /\ TruthyString(subject)
                      THEN MatchGroup(line, "\"", "\"")
                      ELSE Undefined
        toClass == IsDefined(labelMatch) /\ kind = Some("class") /\ MapHas(cls, subject[1])
        toProperty == /\ IsDefined(labelMatch) /\ ~toClass
                      /\ kind = Some("property") /\ MapHas(props, subject[1])
    IN  IF StartsWith(line, "@prefix") \/ StartsWith(line, "#") \/ line = "" THEN st
        ELSE TurtleState(
                 IF toClass
                 THEN MapSet(cls, subject[1],
                             [MapGet(cls, subject[1]) EXCEPT !.label = labelMatch])
                 ELSE cls,
                 IF toProperty
                 THEN MapSet(props, subject[1],
                             [MapGet(props, subject[1]) EXCEPT !.label = labelMatch])
                 ELSE props,
                 subject, kind)

TurtleLines(text) == Split(text, "\n")

\* the Ontology parseTurtle returns over the maps it has filled
TurtleOntology(cls, props, inds) ==
    Ontology("http://example.org/imported-ontology", "Imported Ontology", Undefined, <<>>,
             cls, props, inds)

\* parseTurtle step by step: the three Maps, the lines, the two trackers
parseTurtle_Begin ==
    /\ pc = "parseTurtle"
    /\ classes' = <<>>
    /\ properties' = <<>>
    /\ individuals' = <<>>
    /\ currentSubject' = Undefined
    /\ currentType' = Undefined
    /\ cursor' = 1
    /\ pc' = "parseTurtle:lines"
    /\ UNCHANGED <<call, result, content>>

parseTurtle_Line ==
    /\ pc = "parseTurtle:lines"
    /\ cursor <= Len(TurtleLines(content))
    /\ LET st == TurtleVisit(TurtleState(classes, properties, currentSubject, currentType),
                             TurtleLines(content)[cursor])
       IN  /\ classes' = st.classes
           /\ properties' = st.properties
           /\ currentSubject' = st.currentSubject
           /\ currentType' = st.currentType
    /\ cursor' = cursor + 1
    /\ UNCHANGED <<pc, call, result, content, individuals>>

parseTurtle_Return ==
    /\ pc = "parseTurtle:lines"
    /\ cursor > Len(TurtleLines(content))
    /\ result' = [kind |-> "ontology",
                  value |-> TurtleOntology(classes, properties, individuals)]
    /\ pc' = "done"
    /\ UNCHANGED <<call, content, classes, properties, individuals, cursor,
                   currentSubject, currentType>>

(***************************************************************************)
(* Turtle texts the reader is run on.                                      *)
(***************************************************************************)
ClassDeclaration(S) == "<" \o S \o "> a owl:Class ;"
LabelContinuation(L) == "  rdfs:label \"" \o L \o "\" ."

TurtleSubjectSamples == {"http://ex.org#Cat", "http://ex.org/owl:ObjectProperty"}
TurtleLabelSamples == {"Cat", "an owl:DatatypeProperty", ""}

TurtleLineSamples ==
    {ClassDeclaration(S) : S \in TurtleSubjectSamples}
    \cup {LabelContinuation(L) : L \in TurtleLabelSamples}
    \cup {"<http://ex.org#p> a owl:ObjectProperty ;",
          "<http://ex.org#d> a owl:DatatypeProperty .",
          "<http://ex.org#tom> a <http://ex.org#Cat> ;",
          "  rdfs:subClassOf <http://ex.org#Animal> .",
          "<http://ex.org#tom> rdfs:label \"Tom\" .",
          "@prefix owl: <http://www.w3.org/2002/07/owl#> .",
          ""}

MaxLines == 2

\* lines.join('\n')
JoinLines(lines) ==
    LET acc[i \in 0..Len(lines)] ==
            IF i = 0 THEN ""
            ELSE IF i = 1 THEN lines[1]
            ELSE acc[i - 1] \o "\n" \o lines[i]
    IN  acc[Len(lines)]

TurtleTextSamples ==
    {JoinLines(lines) : lines \in UNION {[1..k -> TurtleLineSamples] : k \in 0..MaxLines}}

InitTurtle ==
    /\ pc = "parseTurtle"
    /\ \E text \in TurtleTextSamples :
           /\ call = [op |-> "parseTurtle", text |-> text]
           /\ content = text
    /\ result = NoResult
    /\ classes = <<>>
    /\ properties = <<>>
    /\ individuals = <<>>
    /\ cursor = 0
    /\ currentSubject = Undefined
    /\ currentType = Undefined

NextTurtle ==
    \/ parseTurtle_Begin
    \/ parseTurtle_Line
    \/ parseTurtle_Return

SpecTurtle == InitTurtle /\ [][NextTurtle]_vars

\* the text is the two lines '<S> a owl:Class ;' and '  rdfs:label "L" .'
IsMinimalClassText(text, S, L) ==
    text = ClassDeclaration(S) \o "\n" \o LabelContinuation(L)

\* the returned ontology has exactly one class, keyed S with id S and label L,
\* and no properties or individuals
SingleLabelledClass(ontology, S, L) ==
    /\ Len(ontology.classes) = 1
    /\ MapHas(ontology.classes, S)
    /\ MapGet(ontology.classes, S).id = S
    /\ MapGet(ontology.classes, S).label = Some(L)
    /\ ontology.properties = <<>>
    /\ ontology.individuals = <<>>

\* C9 as stated: parseTurtle of the line '<S> a owl:Class ;' followed by the
\* line 'rdfs:label "L" .' returns an ontology with exactly one class, keyed S
\* with id S and label L, and no properties or individuals, for every S and L.
TurtleMinimalSubsetAnyText ==
    \A S \in TurtleSubjectSamples, L \in TurtleLabelSamples :
        (Parsed("parseTurtle") /\ IsMinimalClassText(call.text, S, L))
            => SingleLabelledClass(result.value, S, L)

\* S or L spells one of the property keywords the reader looks for
HasPropertyKeyword(s) ==
    Includes(s, "owl:ObjectProperty") \/ Includes(s, "owl:DatatypeProperty")

\* an IRI and a label text that the line reader takes as such: S is not empty
\* and has no '>', L is not empty and has no '"', no '<' and no line break, and
\* neither spells a property keyword
PlainSubject(S) == S # "" /\ ~Includes(S, ">") /\ ~Includes(S, "\n") /\ ~HasPropertyKeyword(S)
PlainLabel(L) ==
    /\ L # ""
    /\ ~Includes(L, "\"") /\ ~Includes(L, "<") /\ ~Includes(L, "\n")
    /\ ~HasPropertyKeyword(L)

\* C9 amended: for every non-empty S without '>' and every non-empty L without
\* '"', '<' or line break, neither containing owl:ObjectProperty or
\* owl:DatatypeProperty, parseTurtle of the line '<S> a owl:Class ;' followed by
\* the line 'rdfs:label "L" .' returns an ontology with exactly one class, keyed
\* S with id S and label L, and no properties or individuals.
TurtleMinimalSubset ==
    \A S \in TurtleSubjectSamples, L \in TurtleLabelSamples :
        (/\ Parsed("parseTurtle")
         /\ IsMinimalClassText(call.text, S, L)
         /\ PlainSubject(S) /\ PlainLabel(L))
            => SingleLabelledClass(result.value, S, L)

\* the spec's example was parsed: the class http://ex.org#Cat labelled Cat
TurtleMinimalSubsetWitness ==
    /\ Parsed("parseTurtle")
    /\ call.text = "<http://ex.org#Cat> a owl:Class ;\n  rdfs:label \"Cat\" ."
    /\ MapValues(result.value.classes) =
           <<OntologyClass("http://ex.org#Cat", "Cat", Some("Cat"), Undefined,
                           <<>>, <<>>, <<>>)>>
    /\ result.value.properties = <<>>

(***************************************************************************)
(* Label fallback of the RDF/XML parser.                                   *)
(***************************************************************************)
\* the fallback as described: the fragment after the last '#'; without a '#'
\* fragment the segment after the last '/'; else the raw IRI
LocalNameOrIRI(id) ==
    IF LastIndexOf(id, "#") > 0 /\ SplitPop(id, "#") # "" THEN SplitPop(id, "#")
    ELSE IF LastIndexOf(id, "/") > 0 /\ SplitPop(id, "/") # "" THEN SplitPop(id, "/")
    ELSE id

\* no element about id carries a non-empty rdfs:label
Unlabelled(doc, id) ==
    \A i \in 1..Len(AboutElements(doc)) :
        LET node == AboutElements(doc)[i]
        IN  resolveIRI(AboutOf(node), XMLBase(doc)) = id
                => ~TruthyString(ChildText(node, "label", "rdfs"))

\* C10: an entity without an explicit rdfs:label gets as label the fragment
\* after the last '#' of its id, else the segment after the last '/', else the
\* raw IRI: 'Person' for http://ex.org/onto#Person and for http://ex.org/Person.
LabelFallsBackToLocalName ==
    Parsed("parseOWLXML") =>
        \A m \in {result.value.classes, result.value.properties, result.value.individuals} :
            \A i \in 1..Len(m) :
                Unlabelled(content, m[i].value.id)
                    => m[i].value.label = Some(LocalNameOrIRI(m[i].value.id))

(***************************************************************************)
(* JSON-LD documents the parser is run on.  rdfs:label, rdfs:comment and   *)
(* the root's @id are strings or missing in all of them.                   *)
(***************************************************************************)
IdRef(iri) == JObject(<<Member("@id", JString(iri))>>)

JSONLDEntrySamples ==
    {JObject(<<Member("@id", JString("http://ex.org#A")),
               Member("@type", JString("owl:Class")),
               Member("rdfs:label", JString("Ay")),
               Member("rdfs:comment", JString("first")),
               Member("rdfs:subClassOf", JArray(<<IdRef("http://ex.org#B"), JNull,
                                                  JString("http://ex.org#C")>>))>>),
     JObject(<<Member("@id", JString("http://ex.org/Person")),
               Member("@type", JString("owl:Class")),
               Member("rdfs:subClassOf", JString("http://ex.org#Missing"))>>),
     JObject(<<Member("@id", JString("http://ex.org#A")),
               Member("@type", JString("rdfs:Class")),
               Member("rdfs:label", JNull),
               Member("rdfs:subClassOf", JNumber(5))>>),
     JObject(<<Member("@id", JString("http://ex.org#p")),
               Member("@type", JString("owl:ObjectProperty")),
               Member("rdfs:label", JString("pee")),
               Member("rdfs:domain", IdRef("http://ex.org#A")),
               Member("rdfs:range", JArray(<<JString("xsd:string"), JBoolean(TRUE)>>))>>),
     JObject(<<Member("@id", JString("http://ex.org#A")),
               Member("@type", JString("owl:DatatypeProperty")),
               Member("rdfs:range", JObject(<<>>))>>),
     JObject(<<Member("@id", JNumber(7)), Member("@type", JString("owl:Class"))>>),
     JObject(<<Member("@id", JString("http://ex.org#tom")),
               Member("@type", JArray(<<IdRef("http://ex.org#A")>>)),
               Member("rdfs:label", JString("Tom"))>>),
     JObject(<<Member("@id", JString("http://ex.org#note")),
               Member("@type", JString("rdf:Property"))>>),
     JObject(<<Member("@id", JString("http://ex.org#q")),
               Member("@type", JString("ex:DataPropertyClass"))>>),
     JNull,
     JString("http://ex.org#A")}

JSONLDHeaderSamples ==
    {<<>>,
     <<Member("@id", JString("http://ex.org/onto")),
       Member("owl:versionInfo", JString("1.0")),
       Member("owl:imports", JArray(<<IdRef("http://ex.org/other")>>))>>,
     <<Member("rdfs:label", JString("Onto")),
       Member("owl:imports", JString("http://ex.org/other"))>>}

MaxItems == 2

\* documents with a @graph of at most MaxItems entries, flat documents whose
\* root is the only entry, and texts whose top level is no object
JSONLDDocumentSamples ==
    {JObject(Append(header, Member("@graph", JArray(items)))) :
        header \in JSONLDHeaderSamples,
        items \in UNION {[1..k -> JSONLDEntrySamples] : k \in 0..MaxItems}}
    \cup {e \in JSONLDEntrySamples : e.t = "object"}
    \cup {JObject(<<Member("@graph", JString("none"))>>)}
    \cup {JMalformed, JNull, JString("text"), JNumber(0), JNumber(5), JBoolean(TRUE),
          JBoolean(FALSE), JArray(<<>>),
          JArray(<<JObject(<<Member("@id", JString("http://ex.org#A")),
                             Member("@type", JString("owl:Class"))>>)>>)}

InitJSONLD ==
    /\ pc = "parseJSONLD"
    /\ \E doc \in JSONLDDocumentSamples :
           /\ call = [op |-> "parseJSONLD", document |-> doc]
           /\ content = doc
    /\ result = NoResult
    /\ classes = <<>>
    /\ properties = <<>>
    /\ individuals = <<>>
    /\ cursor = 0
    /\ currentSubject = Undefined
    /\ currentType = Undefined

NextJSONLD ==
    \/ parseJSONLD_Begin
    \/ parseJSONLD_Item
    \/ parseJSONLD_Return

SpecJSONLD == InitJSONLD /\ [][NextJSONLD]_vars

(***************************************************************************)
(* The three parsers side by side: one call of any of them.                *)
(***************************************************************************)
InitParse == InitJSONLD \/ InitTurtle \/ InitOWLXML

NextParse == NextJSONLD \/ NextTurtle \/ NextOWLXML

SpecParse == InitParse /\ [][NextParse]_vars

\* every key of a Map equals the id of the entity stored under it
KeysAreIds(m) == \A i \in 1..Len(m) : m[i].key = m[i].value.id

\* C11: in the Ontology that parseJSONLD, parseTurtle or parseOWLXML builds or
\* returns, after every parsing step, each key of the classes, properties and
\* individuals mappings equals the id field of the entity stored under it.
ParsedKeysAreIds ==
    /\ KeysAreIds(classes) /\ KeysAreIds(properties) /\ KeysAreIds(individuals)
    /\ result.kind = "ontology" =>
           /\ KeysAreIds(result.value.classes)
           /\ KeysAreIds(result.value.properties)
           /\ KeysAreIds(result.value.individuals)

\* parseOWLXML returned an individual written as rdf:about="#fluffy1" under
\* xml:base, keyed by its resolved IRI, next to a class or a property
ParsedKeysAreIdsWitness ==
    /\ Parsed("parseOWLXML")
    /\ XMLBase(content) = "http://ex.org#"
    /\ \E i \in 1..Len(content.children) :
           /\ content.children[i].tag = "owl:NamedIndividual"
           /\ GetAttribute(content.children[i], "rdf:about") = Some("#fluffy1")
    /\ MapHas(result.value.individuals, "http://ex.org#fluffy1")
    /\ MapGet(result.value.individuals, "http://ex.org#fluffy1").id = "http://ex.org#fluffy1"
    /\ Len(result.value.classes) + Len(result.value.properties) >= 1

(***************************************************************************)
(* Entities stored during a parse.                                         *)
(***************************************************************************)
NoMaps == [classes |-> <<>>, properties |-> <<>>, individuals |-> <<>>]

\* what the step about to be taken builds from the fragment it visits (a node,
\* a graph entry, a line with the subject and kind it continues) read on its
\* own, with nothing stored before
BuiltFromFragment ==
    IF pc = "parseOWLXML:classes" /\ cursor <= Len(ClassNodes(content))
    THEN [NoMaps EXCEPT !.classes = ClassVisit(<<>>, ClassNodes(content)[cursor])]
    ELSE IF pc = "parseOWLXML:properties" /\ cursor <= Len(PropertyNodes(content))
    THEN [NoMaps EXCEPT !.properties =
              PropertyVisit(<<>>, PropertyNodes(content)[cursor].node,
                            PropertyNodes(content)[cursor].internal)]
    ELSE IF pc = "parseOWLXML:individuals" /\ cursor <= Len(IndividualNodes(content))
    THEN [NoMaps EXCEPT !.individuals =
              IndividualVisit(<<>>, IndividualNodes(content)[cursor], XMLBase(content))]
    ELSE IF pc = "parseOWLXML:typed" /\ cursor <= Len(AboutElements(content))
    THEN [NoMaps EXCEPT !.individuals =
              TypedVisit(<<>>, <<>>, <<>>, AboutElements(content)[cursor], XMLBase(content))]
    ELSE IF pc = "parseJSONLD:graph" /\ cursor <= Len(JSONLDGraph(content))
    THEN LET item == JSONLDGraph(content)[cursor]
         IN  IF item.t # "object" \/ JGet(item, "@id").t # "string" THEN NoMaps
             ELSE IF IsClassEntry(item)
             THEN [NoMaps EXCEPT !.classes =
                       MapSet(<<>>, JGet(item, "@id").s, ClassFromJSONLD(item))]
             ELSE IF IsPropertyEntry(item)
             THEN [NoMaps EXCEPT !.properties =
                       MapSet(<<>>, JGet(item, "@id").s, PropertyFromJSONLD(item))]
             ELSE NoMaps
    ELSE IF pc = "parseTurtle:lines" /\ cursor <= Len(TurtleLines(content))
    THEN LET st == TurtleVisit(TurtleState(<<>>, <<>>, currentSubject, currentType),
                               TurtleLines(content)[cursor])
         IN  [NoMaps EXCEPT !.classes = st.classes, !.properties = st.properties]
    ELSE NoMaps

\* under key k the step leaves the stored entity as it was, or stores the
\* entity built complete from the visited fragment
KeptOrBuilt(before, after, built, k) ==
    /\ MapHas(after, k)
    /\ \/ MapGet(after, k) = MapGet(before, k)
       \/ MapHas(built, k) /\ MapGet(after, k) = MapGet(built, k)

\* under key k the step changes the label of the stored entity and nothing else
OnlyLabelSet(before, after, k) ==
    /\ MapHas(after, k)
    /\ MapGet(after, k).label # MapGet(before, k).label
    /\ MapGet(after, k) = [MapGet(before, k) EXCEPT !.label = MapGet(after, k).label]

\* C12 as stated: during parseTurtle, parseJSONLD and parseOWLXML, once an
\* entity is in a mapping no later parsing step changes any field of it: each
\* entity is built complete from its source fragment and only then inserted.
StoredEntitiesNeverChange ==
    [][/\ \A k \in Keys(classes) :
              KeptOrBuilt(classes, classes', BuiltFromFragment.classes, k)
       /\ \A k \in Keys(properties) :
              KeptOrBuilt(properties, properties', BuiltFromFragment.properties, k)
       /\ \A k \in Keys(individuals) :
              KeptOrBuilt(individuals, individuals', BuiltFromFragment.individuals, k)]_vars

\* C12 amended: during parseJSONLD and parseOWLXML, once an entity is in a
\* mapping no later parsing step changes any field of it, each entity being
\* built complete from its source fragment and then inserted; during parseTurtle
\* a later step changes a stored entity only by setting the label of the class
\* or property stored under the current subject, from an rdfs:label line.
StoredEntitiesChangeOnlyByTurtleLabel ==
    [][LET Ok(before, after, built) ==
               \A k \in Keys(before) :
                   \/ KeptOrBuilt(before, after, built, k)
                   \/ /\ pc = "parseTurtle:lines"
                      /\ Includes(TurtleLines(content)[cursor], "rdfs:label")
                      /\ currentSubject' = Some(k)
                      /\ OnlyLabelSet(before, after, k)
       IN  /\ Ok(classes, classes', BuiltFromFragment.classes)
           /\ Ok(properties, properties', BuiltFromFragment.properties)
           /\ \A k \in Keys(individuals) :
                  KeptOrBuilt(individuals, individuals', BuiltFromFragment.individuals, k)]_vars

\* parseJSONLD has stored a class and the next graph entry, a different class
\* entry with the same @id, has replaced it whole
StoredEntitiesWitness ==
    /\ pc = "parseJSONLD:graph"
    /\ cursor = 3
    /\ IsClassEntry(JSONLDGraph(content)[1])
    /\ IsClassEntry(JSONLDGraph(content)[2])
    /\ JGet(JSONLDGraph(content)[1], "@id").t = "string"
    /\ JGet(JSONLDGraph(content)[1], "@id") = JGet(JSONLDGraph(content)[2], "@id")
    /\ ClassFromJSONLD(JSONLDGraph(content)[1]) # ClassFromJSONLD(JSONLDGraph(content)[2])
    /\ MapValues(classes) = <<ClassFromJSONLD(JSONLDGraph(content)[2])>>

(***************************************************************************)
(* parseJSONLD and parseTurtle as functions of their input.                *)
(***************************************************************************)
\* graph.forEach callback, on the two Maps it writes
JSONLDVisit(st, item) ==
    IF item.t # "object" \/ JGet(item, "@id").t # "string" THEN st
    ELSE IF IsClassEntry(item)
    THEN [st EXCEPT !.classes = MapSet(@, JGet(item, "@id").s, ClassFromJSONLD(item))]
    ELSE IF IsPropertyEntry(item)
    THEN [st EXCEPT !.properties = MapSet(@, JGet(item, "@id").s, PropertyFromJSONLD(item))]
    ELSE st

parseJSONLD(doc) ==
    IF doc.t = "malformed" THEN [kind |-> "error", value |-> "SyntaxError"]
    ELSE IF doc.t \notin {"object", "array"}
    THEN [kind |-> "error", value |-> "Invalid JSON-LD content"]
    ELSE LET graph == JSONLDGraph(doc)
             acc[i \in 0..Len(graph)] ==
                 IF i = 0 THEN NoMaps ELSE JSONLDVisit(acc[i - 1], graph[i])
         IN  [kind |-> "ontology",
              value |-> Ontology(
                  JSONLDStringOr(doc, "@id", "http://example.org/imported-ontology"),
                  JSONLDStringOr(doc, "rdfs:label", "Imported Ontology"),
                  JSONOptionalString(JGet(doc, "owl:versionInfo")),
                  extractIds(JGet(doc, "owl:imports")),
                  acc[Len(graph)].classes, acc[Len(graph)].properties, <<>>)]

parseTurtle(text) ==
    LET lines == TurtleLines(text)
        acc[i \in 0..Len(lines)] ==
            IF i = 0 THEN TurtleState(<<>>, <<>>, Undefined, Undefined)
            ELSE TurtleVisit(acc[i - 1], lines[i])
    IN  [kind |-> "ontology",
         value |-> TurtleOntology(acc[Len(lines)].classes, acc[Len(lines)].properties, <<>>)]

\* C13: parseJSONLD raises exactly when the content is malformed JSON or its
\* top-level value is not a JSON object (a string, a number, a boolean, null or
\* an array); for every document whose top level is a JSON object it returns
\* an Ontology.
ParseJSONLDRaisesIffNotObject ==
    (call.op = "parseJSONLD" /\ pc \in {"done", "thrown"}) =>
        /\ pc = "thrown" <=> content.t # "object"
        /\ pc = "thrown" => result.kind = "error"
        /\ pc = "done" => result.kind = "ontology"

(***************************************************************************)
(* Error handling of the parsers.                                          *)
(***************************************************************************)
\* the call of the parser under way, as a function of the whole input
WholeParse ==
    IF call.op = "parseOWLXML" THEN parseOWLXML(content)
    ELSE IF call.op = "parseTurtle" THEN parseTurtle(content)
    ELSE parseJSONLD(content)

NothingRecorded == classes = <<>> /\ properties = <<>> /\ individuals = <<>>

\* C14: every parse call ends either with a raised error and no Ontology, or
\* with an Ontology built from the whole input; parseOWLXML on a document with
\* a parser-error marker raises an error carrying the diagnostic text before
\* any class, property or individual is recorded; no partially populated
\* Ontology is ever returned.
ParsingIsAtomic ==
    /\ pc \notin {"done", "thrown"} => result = NoResult
    /\ pc = "thrown" => result.kind = "error" /\ result = WholeParse /\ NothingRecorded
    /\ pc = "done" => result.kind = "ontology" /\ result = WholeParse
    /\ (call.op = "parseOWLXML" /\ ParserErrors(content) # <<>> /\ pc # "parseOWLXML") =>
           /\ pc = "thrown"
           /\ result.value = "Invalid XML: " \o TextContent(ParserErrors(content)[1])
           /\ NothingRecorded

\* parseOWLXML raised on a document that holds a class next to the parser-error
\* marker, with the marker's text in the message and nothing recorded
ParsingIsAtomicWitness ==
    /\ call.op = "parseOWLXML"
    /\ pc = "thrown"
    /\ ClassNodes(content) # <<>>
    /\ result = [kind |-> "error", value |-> "Invalid XML: unclosed tag"]
    /\ NothingRecorded

\* validateOntology reports the superclass sc of a class
ReportsSuperClass(errors, sc) ==
    \E i \in 1..Len(errors) :
        Includes(errors[i], "superclass") /\ EndsWith(errors[i], ": " \o sc)

\* C15: for a class whose superClasses contains an IRI that is not a key of the
\* ontology's classes (the owl: and rdfs: vocabulary aside), validateOntology's
\* error list contains a message for that reference.
DanglingSuperClassReported ==
    Validated =>
        \A i \in 1..Len(call.ontology.classes) :
            LET superClasses == call.ontology.classes[i].value.superClasses
            IN  \A j \in 1..Len(superClasses) :
                    (/\ ~MapHas(call.ontology.classes, superClasses[j])
                     /\ ~HasPrefix(superClasses[j], {"owl:", "rdfs:"}))
                        => ReportsSuperClass(result.value, superClasses[j])

(***************************************************************************)
(* 4.4 RDF/XML codec: serialize.  The text is modelled by its element      *)
(* tree, attribute values and character data as written (escaped); the     *)
(* white space between elements is left out.                               *)
(***************************************************************************)
\* the five replacements of escapeXML, '&' first
escapeXML(text) ==
    LET Esc(c) == IF c = "&" THEN "&amp;"
                  ELSE IF c = "<" THEN "&lt;"
                  ELSE IF c = ">" THEN "&gt;"
                  ELSE IF c = "\"" THEN "&quot;"
                  ELSE IF c = "'" THEN "&apos;"
                  ELSE c
        acc[i \in 0..Len(text)] ==
            IF i = 0 THEN "" ELSE acc[i - 1] \o Esc(SubSeq(text, i, i))
    IN  acc[Len(text)]

\* what the XML parser reads from written text: the predefined entity
\* references replaced by their characters
RECURSIVE XMLDecode(_)
XMLDecode(written) ==
    LET Entity(e, c) == IF StartsWith(written, e)
                        THEN <<c \o XMLDecode(SubSeq(written, Len(e) + 1, Len(written)))>>
                        ELSE <<>>
        hits == Entity("&amp;", "&") \o Entity("&lt;", "<") \o Entity("&gt;", ">")
                \o Entity("&quot;", "\"") \o Entity("&apos;", "'")
    IN  IF written = "" THEN ""
        ELSE IF hits # <<>> THEN hits[1]
        ELSE SubSeq(written, 1, 1) \o XMLDecode(SubSeq(written, 2, Len(written)))

\* DOMParser.parseFromString on well-formed text: the same tree with attribute
\* values and character data decoded
RECURSIVE DOMParse(_)
DOMParse(el) ==
    Elem(el.tag,
         [i \in 1..Len(el.attrs) |-> Attr(el.attrs[i].name, XMLDecode(el.attrs[i].value))],
         XMLDecode(el.text),
         [i \in 1..Len(el.children) |-> DOMParse(el.children[i])])

\* baseURI
OWLXMLBase(id) ==
    IF EndsWith(id, "#") \/ EndsWith(id, "/") THEN id
    ELSE IF Includes(id, "#") THEN SubSeq(id, 1, LastIndexOf(id, "#"))
    ELSE id \o "#"

\* <tag rdf:resource="escaped iri"/> for each iri
ResourceElements(tag, iris) ==
    [i \in 1..Len(iris) |-> Leaf(tag, <<Attr("rdf:resource", escapeXML(iris[i]))>>, "")]

\* <tag>escaped text</tag> when the optional text is set and not empty
TextElement(tag, optional) ==
    IF TruthyString(optional) THEN <<Leaf(tag, <<>>, escapeXML(optional[1]))>> ELSE <<>>

ClassToOWLXML(cls) ==
    Elem("owl:Class", <<Attr("rdf:about", escapeXML(cls.id))>>, "",
         TextElement("rdfs:label", cls.label)
         \o TextElement("rdfs:comment", cls.description)
         \o ResourceElements("rdfs:subClassOf", cls.superClasses)
         \o ResourceElements("owl:disjointWith", cls.disjointWith)
         \o ResourceElements("owl:equivalentClass", cls.equivalentTo))

PropertyToOWLXML(prop) ==
    Elem("owl:" \o prop.type, <<Attr("rdf:about", escapeXML(prop.id))>>, "",
         TextElement("rdfs:label", prop.label)
         \o TextElement("rdfs:comment", prop.description)
         \o ResourceElements("rdfs:domain", prop.domain)
         \o ResourceElements("rdfs:range", prop.range)
         \o ResourceElements("rdfs:subPropertyOf", prop.superProperties))

IndividualToOWLXML(ind) ==
    Elem("owl:NamedIndividual", <<Attr("rdf:about", escapeXML(ind.id))>>, "",
         ResourceElements("rdf:type", ind.types)
         \o TextElement("rdfs:label", ind.label))

serializeToOWLXML(ontology) ==
    Elem("rdf:RDF",
         <<Attr("xmlns", "http://example.org/ontology#"),
           Attr("xml:base", OWLXMLBase(ontology.id)),
           Attr("xmlns:owl", "http://www.w3.org/2002/07/owl#"),
           Attr("xmlns:rdf", "http://www.w3.org/1999/02/22-rdf-syntax-ns#"),
           Attr("xmlns:rdfs", "http://www.w3.org/2000/01/rdf-schema#"),
           Attr("xmlns:xsd", "http://www.w3.org/2001/XMLSchema#")>>,
         "",
         <<Elem("owl:Ontology", <<Attr("rdf:about", ontology.id)>>, "",
                TextElement("owl:versionInfo", ontology.version)
                \o ResourceElements("owl:imports", ontology.imports))>>
         \o [i \in 1..Len(ontology.classes) |-> ClassToOWLXML(ontology.classes[i].value)]
         \o [i \in 1..Len(ontology.properties) |->
                PropertyToOWLXML(ontology.properties[i].value)]
         \o [i \in 1..Len(ontology.individuals) |->
                IndividualToOWLXML(ontology.individuals[i].value)])

(***************************************************************************)
(* RDF/XML round trip: an ontology is serialized and the text parsed back. *)
(***************************************************************************)
\* a Map holding the entities under their ids
MapOf(entities) == [i \in 1..Len(entities) |-> MapEntry(entities[i].id, entities[i])]

\* ontologies with absolute http IRIs: text with characters that are escaped,
\* a data property, an individual without types
OWLXMLExtraSamples ==
    {Ontology("http://ex.org/onto#", "Onto", Undefined, <<"http://ex.org/a?b=1&c=2">>,
              MapOf(<<OntologyClass("http://ex.org#E", "E", Some("A & <B> \"c\" 'd'"),
                                    Some("&amp;"), <<"http://ex.org#A">>, <<>>, <<>>)>>),
              MapOf(<<OntologyProperty("http://ex.org#d", "d", Some("d"), Undefined,
                                       "DataProperty", <<"http://ex.org#E">>,
                                       <<"xsd:string">>, <<>>)>>),
              MapOf(<<Individual("http://ex.org#n", "n", Some("n"), <<>>, <<>>, <<>>)>>)),
     Ontology("http://ex.org/v1#onto", "Onto", Some("1 < 2"), <<>>,
              <<>>,
              MapOf(<<OntologyProperty("http://ex.org#p", "p", Undefined, Undefined,
                                       "ObjectProperty", <<>>, <<>>, <<>>),
                      OntologyProperty("http://ex.org#a", "a", Some("a"), Undefined,
                                       "AnnotationProperty", <<>>, <<>>, <<>>)>>),
              <<>>)}

OWLXMLRoundTripSamples == RoundTripSamples \cup OWLXMLExtraSamples

InitOWLXMLRoundTrip ==
    /\ pc = "serializeToOWLXML"
    /\ \E o \in OWLXMLRoundTripSamples : call = [op |-> "owlxmlRoundTrip", ontology |-> o]
    /\ result = NoResult
    /\ ParserIdle

\* serializeToOWLXML, and the text handed to parseOWLXML, whose DOMParser reads it
serializeToOWLXML_Step ==
    /\ pc = "serializeToOWLXML"
    /\ content' = DOMParse(serializeToOWLXML(call.ontology))
    /\ pc' = "parseOWLXML"
    /\ UNCHANGED <<call, result, classes, properties, individuals, cursor,
                   currentSubject, currentType>>

NextOWLXMLRoundTrip ==
    \/ serializeToOWLXML_Step
    \/ NextOWLXML

SpecOWLXMLRoundTrip == InitOWLXMLRoundTrip /\ [][NextOWLXMLRoundTrip]_vars

\* every id of the ontology, and the ontology's own, is an absolute http IRI
AbsoluteHttpIRIs(o) ==
    /\ HasPrefix(o.id, {"http://", "https://"})
    /\ \A m \in {o.classes, o.properties, o.individuals} :
           \A i \in 1..Len(m) : HasPrefix(m[i].key, {"http://", "https://"})

\* C16: for every Ontology O with absolute http IRIs,
\* parseOWLXML(serializeToOWLXML(O)) contains every class, every property and
\* every individual of O under the same IRI, and each property keeps its type
\* (ObjectProperty, DataProperty or AnnotationProperty).
OWLXMLRoundTripKeepsEntities ==
    (pc = "done" /\ call.op = "owlxmlRoundTrip" /\ AbsoluteHttpIRIs(call.ontology)) =>
        /\ Keys(call.ontology.classes) \subseteq Keys(result.value.classes)
        /\ Keys(call.ontology.properties) \subseteq Keys(result.value.properties)
        /\ Keys(call.ontology.individuals) \subseteq Keys(result.value.individuals)
        /\ \A k \in Keys(call.ontology.properties) :
               MapGet(result.value.properties, k).type
                   = MapGet(call.ontology.properties, k).type

\* ---------------------------------------------------------------------------
\* 5.2 Turtle codec: serialize
\* ---------------------------------------------------------------------------

\* turtle += part, for each part in turn
ConcatStrings(parts) ==
    LET acc[i \in 0..Len(parts)] == IF i = 0 THEN "" ELSE acc[i - 1] \o parts[i]
    IN  acc[Len(parts)]

\* if (value) { turtle += ` ;\n  predicate "value"` }
TurtleLiteral(predicate, optional) ==
    IF TruthyString(optional)
    THEN " ;\n  " \o predicate \o " \"" \o optional[1] \o "\""
    ELSE ""

\* iris.forEach(iri => { turtle += ` ;\n  predicate <iri>` })
TurtleReferences(predicate, iris) ==
    ConcatStrings([i \in 1..Len(iris) |-> " ;\n  " \o predicate \o " <" \o iris[i] \o ">"])

TurtlePrefixes ==
    "@prefix owl: <http://www.w3.org/2002/07/owl#> .\n"
    \o "@prefix rdf: <http://www.w3.org/1999/02/22-rdf-syntax-ns#> .\n"
    \o "@prefix rdfs: <http://www.w3.org/2000/01/rdf-schema#> .\n"
    \o "@prefix xsd: <http://www.w3.org/2001/XMLSchema#> .\n\n"

ClassToTurtle(cls) ==
    "<" \o cls.id \o "> a owl:Class"
    \o TurtleLiteral("rdfs:label", cls.label)
    \o TurtleLiteral("rdfs:comment", cls.description)
    \o TurtleReferences("rdfs:subClassOf", cls.superClasses)
    \o " .\n\n"

\* the property type is written as it is spelled in the type field
PropertyToTurtle(prop) ==
    "<" \o prop.id \o "> a owl:" \o prop.type
    \o TurtleLiteral("rdfs:label", prop.label)
    \o TurtleLiteral("rdfs:comment", prop.description)
    \o TurtleReferences("rdfs:domain", prop.domain)
    \o TurtleReferences("rdfs:range", prop.range)
    \o " .\n\n"

\* ind.types.map(t => `<${t}>`).join(', ')
IndividualToTurtle(ind) ==
    "<" \o ind.id \o "> a "
    \o ConcatStrings([i \in 1..Len(ind.types) |->
                         (IF i = 1 THEN "" ELSE ", ") \o "<" \o ind.types[i] \o ">"])
    \o TurtleLiteral("rdfs:label", ind.label)
    \o " .\n\n"

serializeToTurtle(ontology) ==
    TurtlePrefixes
    \o "<" \o ontology.id \o "> a owl:Ontology"
    \o TurtleLiteral("owl:versionInfo", ontology.version)
    \o " .\n\n"
    \o ConcatStrings([i \in 1..Len(ontology.classes) |->
                         ClassToTurtle(ontology.classes[i].value)])
    \o ConcatStrings([i \in 1..Len(ontology.properties) |->
                         PropertyToTurtle(ontology.properties[i].value)])
    \o ConcatStrings([i \in 1..Len(ontology.individuals) |->
                         IndividualToTurtle(ontology.individuals[i].value)])

(***************************************************************************)
(* Turtle round trip: an ontology is serialized and the text parsed back.  *)
(***************************************************************************)
\* ontologies whose texts are plain words: labelled and unlabelled classes with
\* a description and superclasses, an object and a data property, an individual
TurtleExtraSamples ==
    {Ontology("http://ex.org/onto", "Onto", version, <<>>,
              MapOf(<<OntologyClass("http://ex.org#Cat", "Cat", Some("Cat"), Some("A cat"),
                                    <<"http://ex.org#Animal">>, <<>>, <<>>),
                      OntologyClass("http://ex.org#Animal", "Animal", Undefined, Undefined,
                                    <<>>, <<>>, <<>>)>>),
              props,
              inds) :
         version \in {Undefined, Some("1.0")},
         props \in {<<>>,
                    MapOf(<<OntologyProperty("http://ex.org#owns", "owns", Some("owns"),
                                             Some("ownership"), "ObjectProperty",
                                             <<"http://ex.org#Cat">>, <<"http://ex.org#Animal">>,
                                             <<>>)>>),
                    MapOf(<<OntologyProperty("http://ex.org#age", "age", Some("age"),
                                             Undefined, "DataProperty",
                                             <<"http://ex.org#Cat">>, <<>>, <<>>)>>)},
         inds \in {<<>>,
                   MapOf(<<Individual("http://ex.org#tom", "tom", Some("Tom"),
                                      <<"http://ex.org#Cat", "http://ex.org#Animal">>,
                                      <<>>, <<>>)>>)}}

\* with the sampled ontologies of at most one class, property and individual
TurtleRoundTripSamples ==
    {o \in RoundTripSamples :
         Len(o.classes) <= 1 /\ Len(o.properties) <= 1 /\ Len(o.individuals) <= 1}
    \cup OWLXMLExtraSamples \cup TurtleExtraSamples

InitTurtleRoundTrip ==
    /\ pc = "serializeToTurtle"
    /\ \E o \in TurtleRoundTripSamples : call = [op |-> "turtleRoundTrip", ontology |-> o]
    /\ result = NoResult
    /\ ParserIdle

\* serializeToTurtle, and the text handed to parseTurtle
serializeToTurtle_Step ==
    /\ pc = "serializeToTurtle"
    /\ content' = serializeToTurtle(call.ontology)
    /\ pc' = "parseTurtle"
    /\ UNCHANGED <<call, result, classes, properties, individuals, cursor,
                   currentSubject, currentType>>

NextTurtleRoundTrip ==
    \/ serializeToTurtle_Step
    \/ NextTurtle

SpecTurtleRoundTrip == InitTurtleRoundTrip /\ [][NextTurtleRoundTrip]_vars

\* the words the line reader acts on
TurtleKeywords ==
    {"owl:Class", "owl:ObjectProperty", "owl:DatatypeProperty", "rdfs:label", "@prefix"}

\* a label or description without quotes, line breaks, angle brackets or keywords
PlainText(optional) ==
    IsDefined(optional) =>
        /\ optional[1] # ""
        /\ \A c \in {"\"", "'", "\n", "<", ">"} : ~Includes(optional[1], c)
        /\ \A k \in TurtleKeywords : ~Includes(optional[1], k)

PlainTexts(o) ==
    /\ \A i \in 1..Len(o.classes) :
           PlainText(o.classes[i].value.label) /\ PlainText(o.classes[i].value.description)
    /\ \A i \in 1..Len(o.properties) :
           PlainText(o.properties[i].value.label)
           /\ PlainText(o.properties[i].value.description)
    /\ \A i \in 1..Len(o.individuals) : PlainText(o.individuals[i].value.label)

\* the entry of m under key k is there and has the label of entity e
SameLabelUnder(m, k, e) == MapHas(m, k) /\ MapGet(m, k).label = e.label

\* C17: for every Ontology O whose labels and descriptions contain no quotes or
\* Turtle keywords, parseTurtle(serializeToTurtle(O)) has a class entry for every
\* class of O and a property entry for every ObjectProperty and DataProperty of
\* O, each under the same IRI with the same label and the same property type,
\* and has no entry that O does not have.
TurtleRoundTripKeepsEntities ==
    (pc = "done" /\ call.op = "turtleRoundTrip" /\ PlainTexts(call.ontology)) =>
        LET O == call.ontology
            P == result.value
        IN  /\ \A i \in 1..Len(O.classes) :
                   SameLabelUnder(P.classes, O.classes[i].key, O.classes[i].value)
            /\ \A i \in 1..Len(O.properties) :
                   O.properties[i].value.type \in {"ObjectProperty", "DataProperty"} =>
                       /\ SameLabelUnder(P.properties, O.properties[i].key,
                                         O.properties[i].value)
                       /\ MapGet(P.properties, O.properties[i].key).type
                              = O.properties[i].value.type
            /\ Keys(P.classes) \subseteq Keys(O.classes)
            /\ Keys(P.properties) \subseteq Keys(O.properties)
            /\ Keys(P.individuals) \subseteq Keys(O.individuals)

\* ---------------------------------------------------------------------------
\* 6. NewEntityDialog
\* ---------------------------------------------------------------------------

CharsOf(s) == {SubSeq(s, i, i) : i \in 1..Len(s)}

\* [a-zA-Z] and [0-9]
Letters == CharsOf("abcdefghijklmnopqrstuvwxyz") \cup CharsOf("ABCDEFGHIJKLMNOPQRSTUVWXYZ")
Digits == CharsOf("0123456789")

\* \s, as far as a text input can hold it
WhitespaceChars == {" ", "\t", "\n", "\r"}

\* /^first rest*$/
MatchesFirstRest(value, first, rest) ==
    /\ Len(value) >= 1
    /\ SubSeq(value, 1, 1) \in first
    /\ \A i \in 2..Len(value) : SubSeq(value, i, i) \in rest

\* /^[a-zA-Z_][a-zA-Z0-9_-]*$/
SimpleIdentifier(value) ==
    MatchesFirstRest(value, Letters \cup {"_"}, Letters \cup Digits \cup {"_", "-"})

\* /^[a-zA-Z][a-zA-Z0-9+.-]*:\/\/[^\s]+$/
FullIRI(value) ==
    \E i \in 1..Len(value) :
        /\ Len(value) >= i + 4
        /\ SubSeq(value, i + 1, i + 3) = "://"
        /\ MatchesFirstRest(SubSeq(value, 1, i), Letters, Letters \cup Digits \cup {"+", ".", "-"})
        /\ \A j \in (i + 4)..Len(value) : SubSeq(value, j, j) \notin WhitespaceChars

\* a format test that looks at the first character only
isValidIRI_FirstCharOnly(value) ==
    Len(value) >= 1 /\ SubSeq(value, 1, 1) \in Letters \cup {"_"}

isValidIRI(value) == FullIRI(value) \/ SimpleIdentifier(value)

\* a duplicate test that looks at the classes only
isDuplicate_ClassesOnly(id, cls, props, inds) == MapHas(cls, id)

isDuplicate(id, cls, props, inds) == MapHas(cls, id) \/ MapHas(props, id) \/ MapHas(inds, id)

\* the context's addClass and addProperty: the entity is stored under its id
addClass(cls, entity) == MapSet(cls, entity.id, entity)
addProperty(props, entity) == MapSet(props, entity.id, entity)

\* the toast of handleCreate for a form and the ontology of the context
\* (loaded or not), in the order of its checks
CreateToast(form, loaded, cls, props, inds) ==
    IF Trim(form.id) = "" \/ Trim(form.name) = "" THEN "Validation error"
    ELSE IF ~isValidIRI(form.id) THEN "Invalid ID format"
    ELSE IF ~loaded THEN "Error"
    ELSE IF isDuplicate(form.id, cls, props, inds) THEN "Duplicate ID"
    ELSE IF form.entityType = "class" THEN "Class created"
    ELSE "Property created"

\* the entities handleCreate hands to addClass and addProperty
DialogClass(form) ==
    OntologyClass(form.id, form.name, Some(form.label), Some(form.description),
                  IF IsDefined(form.parentClassId) THEN <<form.parentClassId[1]>>
                  ELSE <<"owl:Thing">>,
                  <<>>, <<>>)

DialogProperty(form) ==
    OntologyProperty(form.id, form.name, Some(form.label), Some(form.description),
                     form.propertyType, <<>>, <<>>, <<>>)

(***************************************************************************)
(* The dialog as a state machine.  call is the component's state and props *)
(* (the form fields, open, entityType, propertyType, parentClassId),       *)
(* content the ontology handed to the context's setOntology (none before), *)
(* classes, properties and individuals the Maps of the context's ontology, *)
(* result the last toast, with a toggle that tells one toast call from the *)
(* next, and cursor the number of entities created.  The label and         *)
(* description fields stay empty.                                          *)
(***************************************************************************)
DialogIdSamples ==
    {"Person", "Person_Class", "http://example.org/Person", "123Person", "Person Class",
     "Person@Class", "hasName", "john", "ex:Person", "http://user@example.org/x", " "}

DialogNameSamples == {"Person Class", " "}

\* ontologies given to the context: an empty one, and one with classes (one of
\* them imported under a prefixed name), a property and an individual
DialogOntologySamples ==
    {Ontology("http://example.org/onto", "Example", Some("1.0.0"), <<>>, <<>>, <<>>, <<>>),
     Ontology("test-ontology", "Test Ontology", Some("1.0.0"), <<>>,
              MapOf(<<OntologyClass("Person", "Person", Some("Person"), Some(""),
                                    <<>>, <<>>, <<>>),
                      OntologyClass("ex:Person", "Person", Undefined, Undefined,
                                    <<>>, <<>>, <<>>)>>),
              MapOf(<<OntologyProperty("hasName", "hasName", Some("has name"), Some(""),
                                       "DataProperty", <<>>, <<>>, <<>>)>>),
              MapOf(<<Individual("john", "John", Some("John"), <<"Person">>, <<>>, <<>>)>>))}

MaxCreated == 1

Form(open, entityType, propertyType, id, name, parentClassId) ==
    [op |-> "NewEntityDialog", open |-> open, entityType |-> entityType,
     propertyType |-> propertyType, id |-> id, name |-> name, label |-> "",
     description |-> "", parentClassId |-> parentClassId]

\* the mounted component: useState defaults, then the two effects
InitDialog ==
    /\ pc = "dialog"
    /\ \E defaultEntityType \in {"class", "property"},
          parentClassId \in {Undefined, Some("Animal")} :
           call = Form(FALSE,
                       IF IsDefined(parentClassId) THEN "class" ELSE defaultEntityType,
                       "ObjectProperty", "", "", parentClassId)
    /\ result = NoResult
    /\ ParserIdle

DialogUnchanged == UNCHANGED <<pc, content, classes, properties, individuals, cursor,
                               currentSubject, currentType>>

\* the context's setOntology, once
setOntology ==
    /\ pc = "dialog"
    /\ content = NoResult
    /\ \E o \in DialogOntologySamples :
           /\ content' = [kind |-> "ontology", value |-> o]
           /\ classes' = o.classes
           /\ properties' = o.properties
           /\ individuals' = o.individuals
    /\ UNCHANGED <<pc, call, result, cursor, currentSubject, currentType>>

\* the trigger button, or closing the dialog
setDialogOpen ==
    /\ pc = "dialog"
    /\ call' = [call EXCEPT !.open = ~call.open]
    /\ UNCHANGED result
    /\ DialogUnchanged

setId ==
    /\ pc = "dialog" /\ call.open
    /\ \E id \in DialogIdSamples : call' = [call EXCEPT !.id = id]
    /\ UNCHANGED result
    /\ DialogUnchanged

setName ==
    /\ pc = "dialog" /\ call.open
    /\ \E name \in DialogNameSamples : call' = [call EXCEPT !.name = name]
    /\ UNCHANGED result
    /\ DialogUnchanged

\* the entity type select, disabled under a parent class
setEntityType ==
    /\ pc = "dialog" /\ call.open
    /\ ~IsDefined(call.parentClassId)
    /\ \E v \in {"class", "property"} : call' = [call EXCEPT !.entityType = v]
    /\ UNCHANGED result
    /\ DialogUnchanged

\* the property type select, rendered for properties
setPropertyType ==
    /\ pc = "dialog" /\ call.open
    /\ call.entityType = "property"
    /\ \E v \in {"ObjectProperty", "DataProperty"} : call' = [call EXCEPT !.propertyType = v]
    /\ UNCHANGED result
    /\ DialogUnchanged

Toast(title) ==
    [kind |-> "toast", title |-> title,
     toggle |-> IF result.kind = "toast" THEN 1 - result.toggle ELSE 0]

ResetForm(form) ==
    [form EXCEPT !.id = "", !.name = "", !.label = "", !.description = "", !.open = FALSE]

handleCreate ==
    /\ pc = "dialog" /\ call.open
    /\ LET title == CreateToast(call, content # NoResult, classes, properties, individuals)
       IN  /\ title \in {"Class created", "Property created"} => cursor < MaxCreated
           /\ result' = Toast(title)
           /\ IF title = "Class created"
              THEN /\ classes' = addClass(classes, DialogClass(call))
                   /\ call' = ResetForm(call)
                   /\ cursor' = cursor + 1
                   /\ UNCHANGED properties
              ELSE IF title = "Property created"
              THEN /\ properties' = addProperty(properties, DialogProperty(call))
                   /\ call' = ResetForm(call)
                   /\ cursor' = cursor + 1
                   /\ UNCHANGED classes
              ELSE UNCHANGED <<call, classes, properties, cursor>>
    /\ UNCHANGED <<pc, content, individuals, currentSubject, currentType>>

NextDialog ==
    \/ setOntology
    \/ setDialogOpen
    \/ setId
    \/ setName
    \/ setEntityType
    \/ setPropertyType
    \/ handleCreate

SpecDialog == InitDialog /\ [][NextDialog]_vars

\* a step in which handleCreate raised its toast
CreateRequest ==
    /\ pc = "dialog"
    /\ result'.kind = "toast"
    /\ result.kind = "toast" => result'.toggle # result.toggle

HeldIds == Keys(classes) \cup Keys(properties) \cup Keys(individuals)

NothingAdded == UNCHANGED <<classes, properties, individuals>>

\* every entry of the Map before the step is still there, as it was
EntriesKept(before, after) ==
    /\ Len(after) >= Len(before)
    /\ \A i \in 1..Len(before) : after[i] = before[i]

NoEntityOverwritten ==
    /\ EntriesKept(classes, classes')
    /\ EntriesKept(properties, properties')
    /\ EntriesKept(individuals, individuals')

\* the ids that were not in the ontology given to the context
CreatedIds ==
    IF content = NoResult THEN {}
    ELSE (Keys(classes) \ Keys(content.value.classes))
         \cup (Keys(properties) \ Keys(content.value.properties))

CreatedIdsInOneMapping ==
    \A k \in CreatedIds :
        /\ ~(MapHas(classes, k) /\ MapHas(properties, k))
        /\ ~(MapHas(classes, k) /\ MapHas(individuals, k))
        /\ ~(MapHas(properties, k) /\ MapHas(individuals, k))

\* the claim's two forms of an ID, in the claim's words: a letter or underscore
\* followed by letters, digits, '_' or '-'; something, '://', something, with no
\* whitespace
IsSimpleIdentifierText(id) ==
    /\ id # ""
    /\ \A i \in 1..Len(id) :
           \/ SubSeq(id, i, i) \in Letters \cup {"_"}
           \/ i > 1 /\ SubSeq(id, i, i) \in Digits \cup {"-"}

IsSchemeIRIText(id) ==
    /\ \E i \in 2..Len(id) : i + 3 <= Len(id) /\ SubSeq(id, i, i + 2) = "://"
    /\ \A i \in 1..Len(id) : SubSeq(id, i, i) \notin WhitespaceChars

\* C18 as stated: a create request whose ID is already a key of the ontology's
\* classes, properties or individuals is rejected with a 'Duplicate ID' error
\* and nothing is added; no existing entity is overwritten and no ID created
\* through the dialog is held by more than one of the three mappings.
DuplicateIdAlwaysNamed ==
    [][CreateRequest =>
           /\ call.id \in HeldIds => (result'.title = "Duplicate ID" /\ NothingAdded)
           /\ NoEntityOverwritten
           /\ CreatedIdsInOneMapping']_vars

\* C18, amended: a create request whose ID is already a key of the ontology's
\* classes, properties or individuals is rejected and nothing is added; the
\* error is 'Duplicate ID' when ID and Name are not blank and the ID has a valid
\* format, and otherwise the error of the earlier check that failed.  No
\* existing entity is overwritten and no ID created through the dialog is held
\* by more than one of the three mappings.
DuplicateIdRejected ==
    [][CreateRequest =>
           /\ call.id \in HeldIds =>
                  /\ NothingAdded
                  /\ result'.title \in {"Duplicate ID", "Validation error", "Invalid ID format"}
                  /\ result'.title = "Validation error"
                         <=> (Trim(call.id) = "" \/ Trim(call.name) = "")
                  /\ (result'.title = "Duplicate ID")
                         <=> /\ Trim(call.name) # ""
                             /\ SimpleIdentifier(call.id) \/ FullIRI(call.id)
           /\ NoEntityOverwritten
           /\ CreatedIdsInOneMapping']_vars

\* a request for an ID created through the dialog before was rejected as a
\* duplicate
DuplicateIdWitness ==
    /\ pc = "dialog" /\ result.kind = "toast" /\ result.title = "Duplicate ID"
    /\ call.id \in CreatedIds

StartsWithDigit(id) == id # "" /\ SubSeq(id, 1, 1) \in Digits

RejectedAsInvalid == result'.title = "Invalid ID format" /\ NothingAdded

\* C19 as stated: a create request with non-empty ID and Name creates an entity
\* only if the ID is a simple identifier or a full 'scheme://...' IRI without
\* whitespace; an ID that starts with a digit, contains a space or contains a
\* special character such as '@' is rejected with 'Invalid ID format' and
\* nothing is added to the ontology.
InvalidIdAlwaysRejected ==
    [][(CreateRequest /\ call.id # "" /\ call.name # "") =>
           /\ ~NothingAdded => (IsSimpleIdentifierText(call.id) \/ IsSchemeIRIText(call.id))
           /\ (StartsWithDigit(call.id) \/ Includes(call.id, " ") \/ Includes(call.id, "@"))
                  => RejectedAsInvalid]_vars

\* C19, amended: a create request with non-blank ID and Name creates an entity
\* only if the ID is a simple identifier or a full 'scheme://...' IRI without
\* whitespace; an ID that starts with a digit, contains a space, or is not a
\* full IRI and contains a special character such as '@', is rejected with
\* 'Invalid ID format' and nothing is added to the ontology; a blank ID or Name
\* is rejected with 'Validation error' and nothing is added.
InvalidIdRejected ==
    [][CreateRequest =>
           /\ ~NothingAdded => (IsSimpleIdentifierText(call.id) \/ IsSchemeIRIText(call.id))
           /\ (Trim(call.id) # "" /\ Trim(call.name) # "") =>
                  ((\/ StartsWithDigit(call.id)
                    \/ Includes(call.id, " ")
                    \/ Includes(call.id, "@") /\ ~IsSchemeIRIText(call.id))
                       => RejectedAsInvalid)
           /\ (Trim(call.id) = "" \/ Trim(call.name) = "") =>
                  (result'.title = "Validation error" /\ NothingAdded)]_vars

\* 'Person@Class' was rejected, and an entity was created under a full IRI
InvalidIdWitness ==
    /\ pc = "dialog" /\ result.kind = "toast" /\ result.title = "Invalid ID format"
    /\ call.id = "Person@Class" /\ call.name = "Person Class"
    /\ MapHas(classes, "http://example.org/Person")

\* ---------------------------------------------------------------------------
\* 7. formatRelativeTime
\* ---------------------------------------------------------------------------

\* `${n} unit ago`
TimePhrase(n, unit) == ToString(n) \o " " \o unit \o " ago"

\* a version that rounds to the nearest unit (Math.round for Math.floor)
formatRelativeTime_Round(now, date) ==
    LET diffMs == now - date
        diffSec == (diffMs + 500) \div 1000
        diffMin == (diffSec + 30) \div 60
        diffHour == (diffMin + 30) \div 60
        diffDay == (diffHour + 12) \div 24
    IN  IF diffSec < 10 THEN "just now"
        ELSE IF diffSec < 60 THEN TimePhrase(diffSec, "seconds")
        ELSE IF diffMin = 1 THEN "1 minute ago"
        ELSE IF diffMin < 60 THEN TimePhrase(diffMin, "minutes")
        ELSE IF diffHour = 1 THEN "1 hour ago"
        ELSE IF diffHour < 24 THEN TimePhrase(diffHour, "hours")
        ELSE IF diffDay = 1 THEN "1 day ago"
        ELSE TimePhrase(diffDay, "days")

\* now and date are getTime() values; Math.floor of a quotient is \div
formatRelativeTime(now, date) ==
    LET diffMs == now - date
        diffSec == diffMs \div 1000
        diffMin == diffSec \div 60
        diffHour == diffMin \div 60
        diffDay == diffHour \div 24
    IN  IF diffSec < 10 THEN "just now"
        ELSE IF diffSec < 60 THEN TimePhrase(diffSec, "seconds")
        ELSE IF diffMin = 1 THEN "1 minute ago"
        ELSE IF diffMin < 60 THEN TimePhrase(diffMin, "minutes")
        ELSE IF diffHour = 1 THEN "1 hour ago"
        ELSE IF diffHour < 24 THEN TimePhrase(diffHour, "hours")
        ELSE IF diffDay = 1 THEN "1 day ago"
        ELSE TimePhrase(diffDay, "days")

(***************************************************************************)
(* The clock readings the function is run on.  getTime() values are        *)
(* counted from a recent instant, not from 1970, to stay within the        *)
(* model's integers; only their difference enters the function.  The       *)
(* elapsed times are the multiples of each unit up to MaxCount, one        *)
(* millisecond less and 999 milliseconds more, and dates after now.        *)
(***************************************************************************)
MaxCount == 12

NowSamples == {2000000000, 2000000999}

UnitMs == {1000, 60 * 1000, 60 * 60 * 1000, 24 * 60 * 60 * 1000}

ElapsedSamples ==
    {k * unit + d : k \in 0..MaxCount, unit \in UnitMs, d \in {-1, 0, 999}}
    \cup {-5000, 9999, 10000, 59 * 60 * 1000 + 59999, 23 * 60 * 60 * 1000 + 3599999}

InitTime ==
    /\ pc = "formatRelativeTime"
    /\ \E now \in NowSamples, elapsed \in ElapsedSamples :
           call = [op |-> "formatRelativeTime", now |-> now, date |-> now - elapsed]
    /\ result = NoResult
    /\ ParserIdle

formatRelativeTime_Step ==
    /\ pc = "formatRelativeTime"
    /\ result' = [kind |-> "string", value |-> formatRelativeTime(call.now, call.date)]
    /\ pc' = "done"
    /\ UNCHANGED <<call, content, classes, properties, individuals, cursor,
                   currentSubject, currentType>>

NextTime == formatRelativeTime_Step

SpecTime == InitTime /\ [][NextTime]_vars

\* 'N unit ago', singular exactly when N = 1
CountedPhrase(n, unit) ==
    ToString(n) \o " " \o unit \o (IF n = 1 THEN "" ELSE "s") \o " ago"

\* the phrase for s whole seconds elapsed, by the thresholds of the claim
PhraseForSeconds(s) ==
    IF s < 10 THEN "just now"
    ELSE IF s < 60 THEN CountedPhrase(s, "second")
    ELSE IF s < 60 * 60 THEN CountedPhrase(s \div 60, "minute")
    ELSE IF s < 24 * 60 * 60 THEN CountedPhrase(s \div (60 * 60), "hour")
    ELSE CountedPhrase(s \div (24 * 60 * 60), "day")

\* C20: with s the whole seconds elapsed, formatRelativeTime returns 'just now'
\* for s < 10, 'N seconds ago' for 10 <= s < 60, 'N minutes ago' below 60
\* minutes, 'N hours ago' below 24 hours and 'N days ago' otherwise, where N is
\* the floored count of that unit and the singular form is used exactly when
\* N = 1.
RelativeTimeByThresholds ==
    (pc = "done" /\ call.op = "formatRelativeTime") =>
        result.value = PhraseForSeconds((call.now - call.date) \div 1000)

\* one millisecond short of two hours is '1 hour ago'
RelativeTimeWitness ==
    /\ pc = "done" /\ call.op = "formatRelativeTime"
    /\ call.now - call.date = 2 * 60 * 60 * 1000 - 1
    /\ result.value = "1 hour ago"

\* ---------------------------------------------------------------------------
\* 8. RDF/XML individual discovery: precedence of the passes
\* ---------------------------------------------------------------------------

\* the resolved IRI of an about-bearing element, none without one
ResolvedAbout(node, xmlBase) ==
    LET rawId == getAttributeNS(node, "about", RDFNamespace)
    IN  IF IsDefined(rawId) THEN Some(resolveIRI(rawId[1], xmlBase)) ELSE Undefined

\* the second pass is about to visit an element whose resolved IRI is a key
VisitsKnownIRI ==
    /\ pc = "parseOWLXML:typed"
    /\ cursor <= Len(AboutElements(content))
    /\ LET about == ResolvedAbout(AboutElements(content)[cursor], XMLBase(content))
       IN  /\ IsDefined(about)
           /\ about[1] \in Keys(individuals) \cup Keys(classes) \cup Keys(properties)

\* C21: when the second pass of parseOWLXML meets an element whose resolved IRI
\* is already a key of individuals, classes or properties, it adds nothing and
\* changes nothing: the entity recorded earlier keeps all its field values.
FirstPassWins ==
    [][(VisitsKnownIRI /\ cursor' = cursor + 1) =>
           UNCHANGED <<classes, properties, individuals>>]_vars

\* the second pass has gone past an element that is not a NamedIndividual and
\* whose IRI was recorded by the first pass with other types and another label
FirstPassWinsWitness ==
    /\ pc = "parseOWLXML:typed"
    /\ cursor > 1
    /\ cursor - 1 <= Len(AboutElements(content))
    /\ LET node == AboutElements(content)[cursor - 1]
           about == ResolvedAbout(node, XMLBase(content))
       IN  /\ ~Includes(node.tag, "NamedIndividual")
           /\ IsDefined(about)
           /\ MapHas(individuals, about[1])
           /\ MapGet(individuals, about[1]).types
                  # ResolvedResources(node, "type", "rdf", XMLBase(content))
           /\ MapGet(individuals, about[1]).label
                  # XMLIndividual(node, about[1], XMLBase(content)).label

\* ---------------------------------------------------------------------------
\* 9. The Turtle reader's sequential state
\* ---------------------------------------------------------------------------

\* the line the reader is about to visit, trimmed
CurrentLine == Trim(TurtleLines(content)[cursor])

\* a line that is not skipped as a prefix declaration, a comment or a blank
ProcessedLine(line) ==
    ~(StartsWith(line, "@prefix") \/ StartsWith(line, "#") \/ line = "")

LineStep ==
    /\ pc = "parseTurtle:lines"
    /\ cursor <= Len(TurtleLines(content))
    /\ cursor' = cursor + 1

\* a step over a processed line containing rdfs:label and a quoted string
LabelLineStep ==
    /\ LineStep
    /\ ProcessedLine(CurrentLine)
    /\ Includes(CurrentLine, "rdfs:label")
    /\ IsDefined(MatchGroup(CurrentLine, "\"", "\""))

\* the two Maps hold the same entries under every key but k
OthersKept(before, after, k) ==
    /\ Keys(before) \ {k} = Keys(after) \ {k}
    /\ \A key \in Keys(before) \ {k} : MapGet(after, key) = MapGet(before, key)

\* the current subject is a key of the mapping for the current kind
PointsToEntity(subject, kind, cls, props) ==
    /\ IsDefined(subject)
    /\ \/ kind = Some("class") /\ MapHas(cls, subject[1])
       \/ kind = Some("property") /\ MapHas(props, subject[1])

\* C22: in parseTurtle, a (processed) line containing rdfs:label with a quoted
\* string sets the label of exactly the entity that the current subject (the
\* most recent <...> IRI, that line included) and the current kind (from the
\* most recent declaration) point to, and changes no other entity; when the
\* current subject is not a key of the mapping for the current kind, the line
\* changes nothing.
LabelGoesToCurrentEntity ==
    [][LabelLineStep =>
           LET S == currentSubject'
               K == currentType'
               quoted == MatchGroup(CurrentLine, "\"", "\"")
           IN  /\ IsDefined(S) => /\ OthersKept(classes, classes', S[1])
                                  /\ OthersKept(properties, properties', S[1])
               /\ (K = Some("class") /\ PointsToEntity(S, K, classes', properties')) =>
                      /\ MapGet(classes', S[1]).label = quoted
                      /\ properties' = properties
               /\ (K = Some("property") /\ PointsToEntity(S, K, classes', properties')) =>
                      /\ MapGet(properties', S[1]).label = quoted
                      /\ \/ classes' = classes
                         \/ ~IsDefined(MapGet(classes', S[1]).label)
               /\ ~PointsToEntity(S, K, classes', properties') =>
                      UNCHANGED <<classes, properties>>]_vars

\* a label line named a new subject: the class declared before kept its entry,
\* and the line changed nothing
LabelGoesToCurrentEntityWitness ==
    /\ pc = "parseTurtle:lines"
    /\ cursor = 3
    /\ Includes(Trim(TurtleLines(content)[2]), "rdfs:label")
    /\ currentSubject = Some("http://ex.org#tom")
    /\ currentType = Some("class")
    /\ Keys(classes) = {"http://ex.org#Cat"}

\* C23: the reader's state is one of {no-subject, subject-pending-kind,
\* subject-is-class, subject-is-property}: after every processed line the kind
\* is 'class' (resp. 'property') only while the current subject is a declared
\* class (resp. property), and a subject seen without a declaration is pending
\* rather than inheriting the kind of the previous subject.
KindFollowsSubject ==
    (pc \in {"parseTurtle:lines", "done"} /\ call.op = "parseTurtle") =>
        /\ currentType = Some("class") =>
               IsDefined(currentSubject) /\ MapHas(classes, currentSubject[1])
        /\ currentType = Some("property") =>
               IsDefined(currentSubject) /\ MapHas(properties, currentSubject[1])
        /\ currentType \in {Undefined, Some("class"), Some("property")}

\* ---------------------------------------------------------------------------
\* 10. RDF/XML writer: escaping
\* ---------------------------------------------------------------------------

\* an ontology whose IRI has a query string
OWLXMLQuerySamples ==
    {Ontology("http://ex.org/onto?v=1&lang=en", "Onto", Some("1 & 2"),
              <<"http://ex.org/a?b=1&c=2">>,
              MapOf(<<OntologyClass("http://ex.org/c?x=1&y=2", "C", Some("<C>"), Undefined,
                                    <<>>, <<>>, <<>>)>>),
              <<>>, <<>>)}

OWLXMLWriteSamples == OWLXMLRoundTripSamples \cup OWLXMLQuerySamples

InitOWLXMLWrite ==
    /\ pc = "serializeToOWLXML"
    /\ \E o \in OWLXMLWriteSamples : call = [op |-> "serializeToOWLXML", ontology |-> o]
    /\ result = NoResult
    /\ ParserIdle

\* serializeToOWLXML: content is the document as written
serializeToOWLXML_Return ==
    /\ pc = "serializeToOWLXML"
    /\ call.op = "serializeToOWLXML"
    /\ content' = serializeToOWLXML(call.ontology)
    /\ result' = [kind |-> "document"]
    /\ pc' = "done"
    /\ UNCHANGED <<call, classes, properties, individuals, cursor,
                   currentSubject, currentType>>

NextOWLXMLWrite == serializeToOWLXML_Return

SpecOWLXMLWrite == InitOWLXMLWrite /\ [][NextOWLXMLWrite]_vars

XMLEntities == {"&amp;", "&lt;", "&gt;", "&quot;", "&apos;"}

\* written text without a raw special character: no angle bracket and no
\* quote, and every ampersand starts one of the five entity references
WellEscaped(written) ==
    \A i \in 1..Len(written) :
        /\ SubSeq(written, i, i) \notin {"<", ">", "\"", "'"}
        /\ SubSeq(written, i, i) = "&" =>
               \E e \in XMLEntities :
                   /\ i + Len(e) - 1 <= Len(written)
                   /\ SubSeq(written, i, i + Len(e) - 1) = e

\* the strings of the document that come from the ontology: attribute values
\* and character data of the elements below the root, and the root's xml:base
WrittenValues(doc) ==
    LET below == Descendants(doc)
    IN  {GetAttribute(doc, "xml:base")[1]}
        \cup {below[i].text : i \in 1..Len(below)}
        \cup UNION {{below[i].attrs[j].value : j \in 1..Len(below[i].attrs)} :
                       i \in 1..Len(below)}

\* C24: in the output of serializeToOWLXML every string taken from the ontology
\* (ontology id and base IRI, entity ids, labels, descriptions, version,
\* referenced IRIs) is XML-escaped: no raw ampersand, angle bracket or quote
\* reaches the document, and unescaping a written string gives back the input.
OWLXMLOutputEscaped ==
    (pc = "done" /\ call.op = "serializeToOWLXML") =>
        /\ \A written \in WrittenValues(content) : WellEscaped(written)
        /\ XMLDecode(GetAttribute(content.children[1], "rdf:about")[1]) = call.ontology.id
        /\ \A i \in 1..Len(call.ontology.classes) :
               XMLDecode(escapeXML(call.ontology.classes[i].key)) = call.ontology.classes[i].key

\* ---------------------------------------------------------------------------
\* 11. JSON-LD reader: classification of graph entries
\* ---------------------------------------------------------------------------

\* the reader is about to visit a graph entry
ItemStep ==
    /\ pc = "parseJSONLD:graph"
    /\ cursor <= Len(JSONLDGraph(content))
    /\ cursor' = cursor + 1

\* the @id and @type of an entry when they are strings, none otherwise
StringMember(item, name) ==
    IF item.t = "object" /\ JGet(item, name).t = "string"
    THEN Some(JGet(item, name).s)
    ELSE Undefined

\* C25: parseJSONLD classifies each graph entry that has a string @id by its
\* @type: an @type containing 'Class' yields a class; otherwise an @type
\* containing 'Property' yields a property whose type is ObjectProperty if it
\* contains 'Object', DataProperty if it contains 'Data', else
\* AnnotationProperty; every other entry is ignored, and the individuals
\* mapping stays empty.
JSONLDClassifiedByType ==
    [][ItemStep =>
           LET item == JSONLDGraph(content)[cursor]
               id == StringMember(item, "@id")
               type == StringMember(item, "@type")
               asClass == IsDefined(id) /\ IsDefined(type) /\ Includes(type[1], "Class")
               asProperty == /\ IsDefined(id) /\ IsDefined(type) /\ ~asClass
                             /\ Includes(type[1], "Property")
           IN  /\ asClass =>
                      /\ MapHas(classes', id[1])
                      /\ MapGet(classes', id[1]).id = id[1]
                      /\ OthersKept(classes, classes', id[1])
                      /\ properties' = properties
               /\ asProperty =>
                      /\ MapHas(properties', id[1])
                      /\ MapGet(properties', id[1]).type =
                             (IF Includes(type[1], "Object") THEN "ObjectProperty"
                              ELSE IF Includes(type[1], "Data") THEN "DataProperty"
                              ELSE "AnnotationProperty")
                      /\ OthersKept(properties, properties', id[1])
                      /\ classes' = classes
               /\ (~asClass /\ ~asProperty) => UNCHANGED <<classes, properties>>
               /\ individuals' = <<>>]_vars

\* a document with an rdf:Property entry and an entry whose type names both
\* Data...Property and Class was read: an annotation property and a class
JSONLDClassifiedWitness ==
    /\ pc = "done" /\ call.op = "parseJSONLD"
    /\ MapHas(result.value.properties, "http://ex.org#note")
    /\ MapGet(result.value.properties, "http://ex.org#note").type = "AnnotationProperty"
    /\ MapHas(result.value.classes, "http://ex.org#q")
    /\ result.value.individuals = <<>>

\* ---------------------------------------------------------------------------
\* 12. useCopyToClipboard: the copied flag and its timers
\* ---------------------------------------------------------------------------

\* the delay of the timer that clears the flag, in ms
CopiedDelay == 2000

\* the clock advances in steps of half the delay, up to MaxClock steps
ClockStep == CopiedDelay \div 2
MaxClock == 4
MaxCopies == 2

\* the hook's state: the flag, the pending timers (due times, in the order
\* they were set), the writeText promises not yet settled, the calls made, and
\* the time of the last successful copy; cursor is the clock in ms
Hook(copied, timers, pending, copies, lastCopy) ==
    [op |-> "useCopyToClipboard", copied |-> copied, timers |-> timers,
     pending |-> pending, copies |-> copies, lastCopy |-> lastCopy]

InitClipboard ==
    /\ pc = "hook"
    /\ call = Hook(FALSE, <<>>, 0, 0, Undefined)
    /\ result = NoResult
    /\ ParserIdle

HookUnchanged == UNCHANGED <<pc, content, classes, properties, individuals,
                             currentSubject, currentType>>

\* copy(text) up to its await
copy_Call ==
    /\ pc = "hook"
    /\ call.copies < MaxCopies
    /\ call' = [call EXCEPT !.pending = @ + 1, !.copies = @ + 1]
    /\ UNCHANGED <<result, cursor>>
    /\ HookUnchanged

\* writeText resolved: the rest of the try block
copy_Resolved ==
    /\ pc = "hook"
    /\ call.pending > 0
    /\ call' = [call EXCEPT !.pending = @ - 1,
                            !.copied = TRUE,
                            !.timers = Append(@, cursor + CopiedDelay),
                            !.lastCopy = Some(cursor)]
    /\ result' = [kind |-> "returned", value |-> TRUE]
    /\ UNCHANGED cursor
    /\ HookUnchanged

\* writeText rejected: the catch block
copy_Rejected ==
    /\ pc = "hook"
    /\ call.pending > 0
    /\ call' = [call EXCEPT !.pending = @ - 1]
    /\ result' = [kind |-> "returned", value |-> FALSE]
    /\ UNCHANGED cursor
    /\ HookUnchanged

\* the callback of the oldest timer, once it is due
copy_Timeout ==
    /\ pc = "hook"
    /\ call.timers # <<>>
    /\ Head(call.timers) <= cursor
    /\ call' = [call EXCEPT !.copied = FALSE, !.timers = Tail(@)]
    /\ UNCHANGED <<result, cursor>>
    /\ HookUnchanged

\* time passes; a timer that is due runs first
ClockTick ==
    /\ pc = "hook"
    /\ cursor < MaxClock * ClockStep
    /\ call.timers # <<>> => Head(call.timers) > cursor
    /\ cursor' = cursor + ClockStep
    /\ UNCHANGED <<call, result>>
    /\ HookUnchanged

NextClipboard ==
    \/ copy_Call
    \/ copy_Resolved
    \/ copy_Rejected
    \/ copy_Timeout
    \/ ClockTick

SpecClipboard == InitClipboard /\ [][NextClipboard]_vars

\* C26: after every successful copy the copied flag is true and stays true
\* for the 2000 ms that follow that copy, also when a second copy succeeds
\* before the first one's 2000 ms have elapsed.
CopiedForTwoSeconds ==
    (pc = "hook" /\ IsDefined(call.lastCopy) /\ cursor < call.lastCopy[1] + CopiedDelay)
        => call.copied

\* a failed copy returns false and leaves the flag unchanged
FailedCopyKeepsFlag ==
    [][(pc = "hook" /\ call'.pending < call.pending /\ result'.value = FALSE)
           => call'.copied = call.copied]_vars

\* once no timer is pending the flag is false
CopiedClearedAtLast ==
    (pc = "hook" /\ call.timers = <<>>) => ~call.copied

\* ---------------------------------------------------------------------------
\* 13. SPARQL query panel: result, error and isExecuting
\* ---------------------------------------------------------------------------

\* the sample queries, which the executor answers, and a text typed by the
\* user, which it rejects
SAMPLE_QUERIES == <<"SELECT ?class WHERE { ?class a owl:Class }",
                    "SELECT ?p WHERE { ?p a owl:ObjectProperty }",
                    "SELECT ?i WHERE { ?i a owl:NamedIndividual }">>

RejectedQuerySamples == {"SELEC ?x"}

QuerySamples ==
    {SAMPLE_QUERIES[i] : i \in 1..Len(SAMPLE_QUERIES)} \cup RejectedQuerySamples

\* what a thrown value leaves in errorMessage
ErrorMessageSamples == {"Unsupported query", "Unknown error occurred"}

\* the panel's state; null is the empty option; a result is known by the
\* query it was computed from
Panel(query, queryResult, error, isExecuting, activeTab) ==
    [op |-> "SPARQLQuery", query |-> query, result |-> queryResult, error |-> error,
     isExecuting |-> isExecuting, activeTab |-> activeTab]

InitPanel ==
    /\ pc = "panel"
    /\ call = Panel(SAMPLE_QUERIES[1], Undefined, Undefined, FALSE, "editor")
    /\ result = NoResult
    /\ ParserIdle

PanelUnchanged == UNCHANGED <<pc, result, classes, properties, individuals, cursor,
                              currentSubject, currentType>>

\* the context provides an ontology
useOntology ==
    /\ pc = "panel"
    /\ content = NoResult
    /\ content' = [kind |-> "ontology"]
    /\ UNCHANGED call
    /\ PanelUnchanged

\* the editor's onChange
setQuery ==
    /\ pc = "panel"
    /\ \E query \in QuerySamples : call' = [call EXCEPT !.query = query]
    /\ UNCHANGED content
    /\ PanelUnchanged

\* the tabs' onValueChange
setActiveTab ==
    /\ pc = "panel"
    /\ \E tab \in {"editor", "results"} : call' = [call EXCEPT !.activeTab = tab]
    /\ UNCHANGED content
    /\ PanelUnchanged

\* executeQuery, whole: executeSPARQLQuery returns a result or throws
executeQuery ==
    /\ pc = "panel"
    /\ IF content = NoResult
       THEN call' = [call EXCEPT !.error = Some("No ontology loaded")]
       ELSE \E thrown \in IF call.query \in RejectedQuerySamples
                          THEN {Some(msg) : msg \in ErrorMessageSamples}
                          ELSE {Undefined} :
                IF IsDefined(thrown)
                THEN call' = [call EXCEPT !.error = thrown, !.isExecuting = FALSE]
                ELSE call' = [call EXCEPT !.error = Undefined,
                                          !.result = Some(call.query),
                                          !.activeTab = "results",
                                          !.isExecuting = FALSE]
    /\ UNCHANGED content
    /\ PanelUnchanged

\* loadSampleQuery(queryIndex); an index with no sample changes nothing
loadSampleQuery ==
    /\ pc = "panel"
    /\ \E queryIndex \in 0..Len(SAMPLE_QUERIES) :
           IF queryIndex < Len(SAMPLE_QUERIES)
           THEN call' = [call EXCEPT !.query = SAMPLE_QUERIES[queryIndex + 1],
                                     !.result = Undefined,
                                     !.error = Undefined,
                                     !.activeTab = "editor"]
           ELSE UNCHANGED call
    /\ UNCHANGED content
    /\ PanelUnchanged

NextPanel ==
    \/ useOntology
    \/ setQuery
    \/ setActiveTab
    \/ executeQuery
    \/ loadSampleQuery

SpecPanel == InitPanel /\ [][NextPanel]_vars

\* C27: after any sequence of executeQuery and loadSampleQuery actions a
\* non-null error and a non-null result are never held together (a failed
\* query leaves no earlier result visible).
ErrorAndResultNeverTogether ==
    pc = "panel" => ~(IsDefined(call.error) /\ IsDefined(call.result))

\* no handler leaves isExecuting set
NotExecutingBetweenHandlers ==
    pc = "panel" => ~call.isExecuting

\* a step that sets a result sets the result of the query in the editor
ResultOfExecutedQuery ==
    [][(pc = "panel" /\ call'.result # call.result /\ IsDefined(call'.result))
           => call'.result = Some(call.query)]_vars

\* ---------------------------------------------------------------------------
\* 14. GraphView: zoom factor and force-layout simulation
\* ---------------------------------------------------------------------------

\* lib/constants, in thousandths for the zoom values and factors
GraphConstants ==
    [MIN_ZOOM |-> 100, MAX_ZOOM |-> 5000, DEFAULT_ZOOM |-> 1000,
     WHEEL_ZOOM_IN_FACTOR |-> 1100, WHEEL_ZOOM_OUT_FACTOR |-> 900,
     ZOOM_IN_FACTOR |-> 1200, ZOOM_OUT_FACTOR |-> 800,
     MAX_FIT_ZOOM |-> 2000, FIT_VIEW_PADDING |-> 100]

MIN_ZOOM == GraphConstants.MIN_ZOOM
MAX_ZOOM == GraphConstants.MAX_ZOOM

\* the number of force steps of one simulation
MAX_SIMULATION_ITERATIONS == 3

\* the largest number of nodes of a loaded ontology
MaxGraphNodes == 2

ZoomUnit == 10 * 10 * 10

MathMin(a, b) == IF a <= b THEN a ELSE b
MathMax(a, b) == IF a >= b THEN a ELSE b

\* prev * factor
Scaled(zoom, factor) == (zoom * factor) \div ZoomUnit

\* the canvas rectangle, and the bounding box of the nodes (maxX - minX and
\* maxY - minY, radii included), which the layout decides
CanvasRectSamples == {<<800, 600>>, <<60, 600>>}
BoundingBoxSamples == {<<600, 600>>, <<200, 100>>, <<40, 40>>}

\* a single node spans its own diameter
BoundingBoxes(nodes) ==
    IF nodes = 1 THEN {<<40, 40>>} ELSE BoundingBoxSamples

\* the component's state: zoom, the number of nodes, isSimulating, whether an
\* animation frame is requested, and the iterations of the running effect;
\* cursor counts the force steps applied
Graph(zoom, loaded, nodes, isSimulating, frame, iterations) ==
    [op |-> "GraphView", zoom |-> zoom, loaded |-> loaded, nodes |-> nodes,
     isSimulating |-> isSimulating, frame |-> frame, iterations |-> iterations]

InitGraph ==
    /\ pc = "graph"
    /\ call = Graph(GraphConstants.DEFAULT_ZOOM, FALSE, 0, TRUE, FALSE, 0)
    /\ result = NoResult
    /\ ParserIdle

GraphUnchanged == UNCHANGED <<pc, result, content, classes, properties, individuals,
                              currentSubject, currentType>>

\* the ontology arrives: the effect that builds nodes and edges, and then the
\* simulation effect, which runs again because edges is a new array
buildGraph ==
    /\ pc = "graph"
    /\ ~call.loaded
    /\ \E n \in 0..MaxGraphNodes :
           call' = [call EXCEPT !.loaded = TRUE, !.nodes = n, !.isSimulating = TRUE,
                                !.frame = (n # 0), !.iterations = 0]
    /\ UNCHANGED cursor
    /\ GraphUnchanged

\* the animation frame callback
animate ==
    /\ pc = "graph"
    /\ call.frame
    /\ IF call.iterations < MAX_SIMULATION_ITERATIONS
       THEN /\ call' = [call EXCEPT !.iterations = @ + 1]
            /\ cursor' = cursor + 1
       ELSE /\ call' = [call EXCEPT !.isSimulating = FALSE, !.frame = FALSE]
            /\ UNCHANGED cursor
    /\ GraphUnchanged

handleWheel ==
    /\ pc = "graph"
    /\ \E deltaY \in {-1, 1} :
           LET delta == IF deltaY > 0 THEN GraphConstants.WHEEL_ZOOM_OUT_FACTOR
                        ELSE GraphConstants.WHEEL_ZOOM_IN_FACTOR
           IN  call' = [call EXCEPT
                   !.zoom = MathMax(MIN_ZOOM, MathMin(MAX_ZOOM, Scaled(@, delta)))]
    /\ UNCHANGED cursor
    /\ GraphUnchanged

\* the Zoom In and Zoom Out buttons
zoomIn ==
    /\ pc = "graph"
    /\ call' = [call EXCEPT
           !.zoom = MathMin(MAX_ZOOM, Scaled(@, GraphConstants.ZOOM_IN_FACTOR))]
    /\ UNCHANGED cursor
    /\ GraphUnchanged

zoomOut ==
    /\ pc = "graph"
    /\ call' = [call EXCEPT
           !.zoom = MathMax(MIN_ZOOM, Scaled(@, GraphConstants.ZOOM_OUT_FACTOR))]
    /\ UNCHANGED cursor
    /\ GraphUnchanged

resetView ==
    /\ pc = "graph"
    /\ call' = [call EXCEPT !.zoom = 1 * ZoomUnit]
    /\ UNCHANGED cursor
    /\ GraphUnchanged

\* fitToView with the given number of nodes
FitZoom(nodes, zoom, rect, box) ==
    IF nodes = 0
    THEN zoom
    ELSE LET contentWidth == box[1] + GraphConstants.FIT_VIEW_PADDING
             contentHeight == box[2] + GraphConstants.FIT_VIEW_PADDING
         IN  MathMin(MathMin((rect[1] * ZoomUnit) \div contentWidth,
                             (rect[2] * ZoomUnit) \div contentHeight),
                     GraphConstants.MAX_FIT_ZOOM)

\* the Fit to Screen button
fitToView ==
    /\ pc = "graph"
    /\ \E rect \in CanvasRectSamples, box \in BoundingBoxes(call.nodes) :
           call' = [call EXCEPT !.zoom = FitZoom(call.nodes, @, rect, box)]
    /\ UNCHANGED cursor
    /\ GraphUnchanged

\* the keydown listener, registered once: its fitToView is the one of the
\* first render, where nodes is empty
handleKeyDown ==
    /\ pc = "graph"
    /\ \E key \in {"+", "-", "0", "f"}, ctrlKey \in BOOLEAN,
          rect \in CanvasRectSamples, box \in BoundingBoxes(0) :
           IF ctrlKey
           THEN UNCHANGED call
           ELSE call' = [call EXCEPT !.zoom =
                    IF key = "+"
                    THEN MathMin(MAX_ZOOM, Scaled(@, GraphConstants.ZOOM_IN_FACTOR))
                    ELSE IF key = "-"
                    THEN MathMax(MIN_ZOOM, Scaled(@, GraphConstants.ZOOM_OUT_FACTOR))
                    ELSE IF key = "0"
                    THEN 1 * ZoomUnit
                    ELSE FitZoom(0, @, rect, box)]
    /\ UNCHANGED cursor
    /\ GraphUnchanged

NextGraph ==
    \/ buildGraph
    \/ animate
    \/ handleWheel
    \/ zoomIn
    \/ zoomOut
    \/ resetView
    \/ fitToView
    \/ handleKeyDown

SpecGraph == InitGraph /\ [][NextGraph]_vars

\* a requested animation frame is eventually run
SpecGraphFair == SpecGraph /\ WF_vars(animate)

\* C28: after any sequence of wheel, keyboard, zoom-button, fit-to-view and
\* reset actions, the zoom factor stays within [MIN_ZOOM, MAX_ZOOM].
ZoomWithinLimits ==
    pc = "graph" => (MIN_ZOOM <= call.zoom /\ call.zoom <= MAX_ZOOM)

\* the zoom factor never exceeds MAX_ZOOM
ZoomAtMostMax ==
    pc = "graph" => call.zoom <= MAX_ZOOM

\* C29: after an ontology is loaded, the simulation applies at most
\* MAX_SIMULATION_ITERATIONS force steps and then stops: isSimulating
\* eventually becomes false and stays false, for every ontology including one
\* with no entities.
SimulationStops ==
    [](call.loaded => <>[](~call.isSimulating /\ cursor <= MAX_SIMULATION_ITERATIONS))

\* at most MAX_SIMULATION_ITERATIONS force steps are applied
ForceStepsBounded ==
    pc = "graph" => cursor <= MAX_SIMULATION_ITERATIONS

\* the simulation of an ontology that has entities stops
SimulationOfNodesStops ==
    []((call.loaded /\ call.nodes > 0) => <>[](~call.isSimulating))

\* ---------------------------------------------------------------------------
\* 15. NewEntityDialog and validateOntology
\* ---------------------------------------------------------------------------

\* the context's ontology: the one loaded, with the Maps as they are now
ContextOntology ==
    [content.value EXCEPT !.classes = classes, !.properties = properties,
                          !.individuals = individuals]

\* C30: starting from an ontology that validates with no errors, after any
\* sequence of successful create requests validateOntology still returns no
\* error (the created entities, with their ids and the default superclass
\* 'owl:Thing' or the given parent class, are accepted).
CreatedEntitiesValidate ==
    (/\ pc = "dialog"
     /\ content # NoResult
     /\ validateOntology(content.value) = <<>>)
        => validateOntology(ContextOntology) = <<>>

\* the same for a class created under an http IRI with the default superclass
HttpClassValidates ==
    (/\ pc = "dialog"
     /\ content # NoResult
     /\ validateOntology(content.value) = <<>>
     /\ \A i \in 1..Len(classes) :
            /\ StartsWith(classes[i].key, "http")
            /\ classes[i].value.superClasses = <<"owl:Thing">>
     /\ \A i \in 1..Len(properties) : StartsWith(properties[i].key, "http"))
        => validateOntology(ContextOntology) = <<>>

HttpClassCreated ==
    /\ pc = "dialog"
    /\ content # NoResult
    /\ validateOntology(content.value) = <<>>
    /\ Len(classes) = 1
    /\ StartsWith(classes[1].key, "http")
    /\ classes[1].value.superClasses = <<"owl:Thing">>
====
